---- MODULE Spec2Model ----
(***************************************************************************)
(* Model of the product search tool (Task-10): the criteria filter/sort    *)
(* engine filter_products_by_criteria and its caller                       *)
(* ProductSearchTool.search_products, which takes the criteria from the    *)
(* function call of a chat completion, and the console loop               *)
(* ProductSearchTool.run.                                                  *)
(*                                                                         *)
(* Representation of Python values:                                        *)
(*   - text (str) is the sequence of its code points, so that lower(),     *)
(*     the substring test and the ordering of text are computed;           *)
(*   - an optional argument is None (the empty tuple) or <<v>>;            *)
(*   - a product (dict) is a function whose domain holds the keys the      *)
(*     record has, so that dict.get's default is computed;                 *)
(*   - a price_range value is tagged with its Python type;                 *)
(*   - JSON text is the sequence of its lexical tokens.                    *)
(***************************************************************************)
EXTENDS Integers, Sequences, FiniteSets, TLC

VARIABLES products, criteria, result, pc, response

\* the console loop ProductSearchTool.run: the lines and signals still to
\* come at the prompt, those already read, the queries handed to
\* search_products, where the loop stands, and the errors it has reported
VARIABLES inputs, consumed, searched, loop, reported

\* the variables of the tool around the engine
others == <<response, inputs, consumed, searched, loop, reported>>

\* the audio tool AudioAnalyzer: the file handed to process_audio_file, where
\* the processing stands, what the remote API answers to each request, the
\* steps entered and the remote requests made so far, the values
\* transcribe_audio, generate_summary, extract_analytics and save_results
\* returned, and the exception that left process_audio_file
VARIABLES file, step, remote, trace, calls, transcribed, summary, analytics, saved, failure

audio == <<file, step, remote, trace, calls, transcribed, summary, analytics, saved, failure>>

vars == <<products, criteria, result, pc, others, audio>>

-----------------------------------------------------------------------------
(* Bounds of the model *)

MaxProducts == 2

MaxSorted == 3

MaxPrice == 2

MaxLimit == 2

\* lines and signals that arrive at the prompt of the console loop
MaxInputs == 3

-----------------------------------------------------------------------------
(* Python values *)

None == <<>>

Some(v) == <<v>>

\* dict.get(key, default)
get(d, key, default) == IF key \in DOMAIN d THEN d[key] ELSE default

\* str.lower() on ASCII text: 'A'..'Z' (65..90) map to 'a'..'z' (97..122)
lower_char(c) == IF c >= 65 /\ c <= 90 THEN c + 32 ELSE c

lower(s) == [i \in 1..Len(s) |-> lower_char(s[i])]

\* needle in haystack (substring test on text)
contains(haystack, needle) ==
    \E i \in 0..(Len(haystack) - Len(needle)) :
        \A j \in 1..Len(needle) : haystack[i + j] = needle[j]

\* a < b on text: lexicographic by code point, a proper prefix is smaller
str_lt(a, b) ==
    \E i \in 1..(Len(a) + 1) :
        /\ i <= Len(b)
        /\ \A j \in 1..(i - 1) : a[j] = b[j]
        /\ (i = Len(a) + 1 \/ a[i] < b[i])

-----------------------------------------------------------------------------
(* json.loads on a token sequence.  The grammar covered is                 *)
(*   value  ::= number | null | [ ] | object                               *)
(*   object ::= { } | { pair (, pair)* }       pair ::= key : number|null  *)
(* with the keys "min" and "max" of a price_range and the keys             *)
(* "max_price", "min_rating" and "limit" of a criteria mapping.            *)
(* Anything else, or text left over after the value, is a JSONDecodeError. *)
(* A number decodes to <<n>>, null to None, an object to a dict.           *)

NumberTokens == {"0", "1", "2", "3"}

number_value(t) == CASE t = "0" -> 0 [] t = "1" -> 1 [] t = "2" -> 2 [] t = "3" -> 3

KeyTokens == {"\"min\"", "\"max\"", "\"max_price\"", "\"min_rating\"", "\"limit\""}

key_value(t) ==
    CASE t = "\"min\"" -> "min"
      [] t = "\"max\"" -> "max"
      [] t = "\"max_price\"" -> "max_price"
      [] t = "\"min_rating\"" -> "min_rating"
      [] t = "\"limit\"" -> "limit"

scalar_value(t) == IF t = "null" THEN None ELSE Some(number_value(t))

EmptyDict == [k \in {} |-> None]

\* d[key] = value (a repeated key keeps the last value)
dict_set(d, key, value) ==
    [k \in DOMAIN d \cup {key} |-> IF k = key THEN value ELSE d[k]]

DecodeError == [ok |-> FALSE]

RECURSIVE parse_members(_, _, _)
\* the pairs of an object from token i on; acc holds the pairs read so far
parse_members(toks, i, acc) ==
    IF i + 3 > Len(toks) THEN DecodeError
    ELSE IF ~(/\ toks[i] \in KeyTokens
              /\ toks[i + 1] = ":"
              /\ toks[i + 2] \in NumberTokens \cup {"null"}) THEN DecodeError
    ELSE LET d == dict_set(acc, key_value(toks[i]), scalar_value(toks[i + 2]))
         IN  IF toks[i + 3] = "}"
             THEN IF i + 3 = Len(toks)
                  THEN [ok |-> TRUE, type |-> "dict", value |-> d]
                  ELSE DecodeError
             ELSE IF toks[i + 3] = ","
                  THEN parse_members(toks, i + 4, d)
                  ELSE DecodeError

json_loads(toks) ==
    IF Len(toks) = 0 THEN DecodeError
    ELSE IF toks[1] \in NumberTokens
         THEN IF Len(toks) = 1
              THEN [ok |-> TRUE, type |-> "int", value |-> number_value(toks[1])]
              ELSE DecodeError
    ELSE IF toks[1] = "null"
         THEN IF Len(toks) = 1 THEN [ok |-> TRUE, type |-> "null"] ELSE DecodeError
    ELSE IF toks[1] = "["
         THEN IF Len(toks) = 2 /\ toks[2] = "]"
              THEN [ok |-> TRUE, type |-> "list"]
              ELSE DecodeError
    ELSE IF toks[1] = "{"
         THEN IF Len(toks) = 2 /\ toks[2] = "}"
              THEN [ok |-> TRUE, type |-> "dict", value |-> EmptyDict]
              ELSE parse_members(toks, 2, EmptyDict)
    ELSE DecodeError

-----------------------------------------------------------------------------
(* Truthiness of the arguments the code tests with a bare `if x:` *)

\* a text argument (category): not None and not ''
truthy_text(x) == x # None /\ Len(x[1]) > 0

\* sort_by, which the code only compares with the six mode names, is kept as
\* an atomic name: not None and not ''
truthy_name(x) == x # None /\ x[1] # ""

\* a list argument: not None and not []
truthy_list(x) == x # None /\ Len(x[1]) > 0

\* price_range: a non-empty dict, non-empty text, a non-zero number, a non-empty list
truthy_price_range(x) ==
    /\ x # None
    /\ CASE x[1].type = "dict" -> DOMAIN x[1].dict # {}
         [] x[1].type = "str"  -> Len(x[1].text) > 0
         [] x[1].type = "int"  -> x[1].int # 0
         [] x[1].type = "list" -> Len(x[1].list) > 0

-----------------------------------------------------------------------------
(* The stages of filter_products_by_criteria *)

\* variant: `category.lower() in p.get('category', '').lower()`, a
\* substring match
category_filter_contains(ps, category) ==
    IF truthy_text(category)
    THEN SelectSeq(ps, LAMBDA p : contains(lower(get(p, "category", <<>>)), lower(category[1])))
    ELSE ps

category_filter(ps, category) ==
    IF truthy_text(category)
    THEN SelectSeq(ps, LAMBDA p : lower(get(p, "category", <<>>)) = lower(category[1]))
    ELSE ps

\* variant: price_range fills in only the bounds not supplied separately
override_from_unless_supplied(d, min_price, max_price) ==
    [min_price |-> IF min_price = None THEN get(d, "min", None) ELSE min_price,
     max_price |-> IF max_price = None THEN get(d, "max", None) ELSE max_price]

\* variant: price_range replaces both bounds, also by the ones it does not set
override_from_both(d, min_price, max_price) ==
    [min_price |-> get(d, "min", None), max_price |-> get(d, "max", None)]

\* the two assignments made from a dict d (the argument, or the decoded text)
override_from(d, min_price, max_price) ==
    [min_price |-> IF get(d, "min", None) # None THEN d["min"] ELSE min_price,
     max_price |-> IF get(d, "max", None) # None THEN d["max"] ELSE max_price]

\* variant: the decoded object read for its min only
\* (`max_price = parsed_range['min']` never reached)
parse_price_range_text_min_only(text, min_price, max_price) ==
    LET parsed_range == json_loads(text)
    IN  IF ~parsed_range.ok
        THEN [exc |-> "JSONDecodeError", min_price |-> min_price, max_price |-> max_price]
        ELSE IF parsed_range.type # "dict"
        THEN [exc |-> "AttributeError", min_price |-> min_price, max_price |-> max_price]
        ELSE [exc |-> "none",
              min_price |-> override_from(parsed_range.value, min_price, max_price).min_price,
              max_price |-> max_price]

\* the body of the inner try: json.loads, then the two assignments; exc is
\* the exception it ends with ("none": it ran to its end).  parsed_range.get
\* on a decoded value that is no dict is an AttributeError.
parse_price_range_text(text, min_price, max_price) ==
    LET parsed_range == json_loads(text)
    IN  IF ~parsed_range.ok
        THEN [exc |-> "JSONDecodeError", min_price |-> min_price, max_price |-> max_price]
        ELSE IF parsed_range.type # "dict"
        THEN [exc |-> "AttributeError", min_price |-> min_price, max_price |-> max_price]
        ELSE [exc |-> "none"] @@ override_from(parsed_range.value, min_price, max_price)

\* the inner `except json.JSONDecodeError: pass`
except_JSONDecodeError(r) ==
    IF r.exc = "JSONDecodeError" THEN [r EXCEPT !.exc = "none"] ELSE r

\* the exception classes derived from Exception
is_Exception(exc) == exc \in {"JSONDecodeError", "AttributeError", "TypeError"}

\* variant: the outer handler takes json.JSONDecodeError only
except_Exception_narrow(r) ==
    IF r.exc = "JSONDecodeError" THEN [r EXCEPT !.exc = "none"] ELSE r

\* the outer `except Exception: pass`
except_Exception(r) ==
    IF is_Exception(r.exc) THEN [r EXCEPT !.exc = "none"] ELSE r

\* the body of the outer try
price_range_body(price_range, min_price, max_price) ==
    IF price_range[1].type = "dict"
    THEN [exc |-> "none"] @@ override_from(price_range[1].dict, min_price, max_price)
    ELSE IF price_range[1].type = "str"
    THEN except_JSONDecodeError(
             parse_price_range_text(price_range[1].text, min_price, max_price))
    ELSE [exc |-> "none", min_price |-> min_price, max_price |-> max_price]

\* variant: the block without its outer try, every exception of the body
\* but the json.JSONDecodeError caught inside leaves the call
resolve_price_range_unguarded(price_range, min_price, max_price) ==
    IF truthy_price_range(price_range)
    THEN LET r == price_range_body(price_range, min_price, max_price)
         IN  [raised |-> r.exc # "none", min_price |-> r.min_price,
              max_price |-> r.max_price]
    ELSE [raised |-> FALSE, min_price |-> min_price, max_price |-> max_price]

\* `if price_range: try: ... except Exception: pass`: the effective bounds,
\* and whether an exception leaves the block
resolve_price_range(price_range, min_price, max_price) ==
    IF truthy_price_range(price_range)
    THEN LET r == except_Exception(price_range_body(price_range, min_price, max_price))
         IN  [raised |-> r.exc # "none", min_price |-> r.min_price,
              max_price |-> r.max_price]
    ELSE [raised |-> FALSE, min_price |-> min_price, max_price |-> max_price]

\* variant: `elif min_price is not None`, the lower bound skipped when an
\* upper bound is set
price_filter_elif(ps, min_price, max_price) ==
    IF max_price # None
    THEN SelectSeq(ps, LAMBDA p : get(p, "price", 0) <= max_price[1])
    ELSE IF min_price # None
    THEN SelectSeq(ps, LAMBDA p : get(p, "price", 0) >= min_price[1])
    ELSE ps

\* variant: the upper price bound compared with < instead of <=
price_filter_strict(ps, min_price, max_price) ==
    LET below == IF max_price # None
                 THEN SelectSeq(ps, LAMBDA p : get(p, "price", 0) < max_price[1])
                 ELSE ps
    IN  IF min_price # None
        THEN SelectSeq(below, LAMBDA p : get(p, "price", 0) >= min_price[1])
        ELSE below

\* variant: a record without a price never passes an active price bound
price_filter_priced_only(ps, min_price, max_price) ==
    LET below == IF max_price # None
                 THEN SelectSeq(ps, LAMBDA p : "price" \in DOMAIN p /\ p.price <= max_price[1])
                 ELSE ps
    IN  IF min_price # None
        THEN SelectSeq(below, LAMBDA p : "price" \in DOMAIN p /\ p.price >= min_price[1])
        ELSE below

\* variant: `if max_price:` and `if min_price:`, a bound of 0 taken for no
\* bound
price_filter_truthy(ps, min_price, max_price) ==
    LET below == IF max_price # None /\ max_price[1] # 0
                 THEN SelectSeq(ps, LAMBDA p : get(p, "price", 0) <= max_price[1])
                 ELSE ps
    IN  IF min_price # None /\ min_price[1] # 0
        THEN SelectSeq(below, LAMBDA p : get(p, "price", 0) >= min_price[1])
        ELSE below

price_filter(ps, min_price, max_price) ==
    LET below == IF max_price # None
                 THEN SelectSeq(ps, LAMBDA p : get(p, "price", 0) <= max_price[1])
                 ELSE ps
    IN  IF min_price # None
        THEN SelectSeq(below, LAMBDA p : get(p, "price", 0) >= min_price[1])
        ELSE below

\* variant: the lower rating bound compared with > instead of >=
rating_filter_strict(ps, min_rating, max_rating) ==
    LET above == IF min_rating # None
                 THEN SelectSeq(ps, LAMBDA p : get(p, "rating", 0) > min_rating[1])
                 ELSE ps
    IN  IF max_rating # None
        THEN SelectSeq(above, LAMBDA p : get(p, "rating", 0) <= max_rating[1])
        ELSE above

rating_filter(ps, min_rating, max_rating) ==
    LET above == IF min_rating # None
                 THEN SelectSeq(ps, LAMBDA p : get(p, "rating", 0) >= min_rating[1])
                 ELSE ps
    IN  IF max_rating # None
        THEN SelectSeq(above, LAMBDA p : get(p, "rating", 0) <= max_rating[1])
        ELSE above

\* variant: the flag read as a plain boolean, None taken as False
stock_filter_no_none(ps, in_stock_only) ==
    SelectSeq(ps, LAMBDA p : get(p, "in_stock", FALSE) = (in_stock_only = Some(TRUE)))

\* variant: the flag tested with `if in_stock_only:`, so that False filters nothing
stock_filter_truthy(ps, in_stock_only) ==
    IF in_stock_only = Some(TRUE)
    THEN SelectSeq(ps, LAMBDA p : get(p, "in_stock", FALSE) = TRUE)
    ELSE ps

\* variant: a stock filter that would leave nothing is dropped ("no record
\* in that stock state: show them all"), which makes the stage depend on
\* the list it is given
stock_filter_fallback(ps, in_stock_only) ==
    IF in_stock_only # None
    THEN LET kept == SelectSeq(ps, LAMBDA p : get(p, "in_stock", FALSE) = in_stock_only[1])
         IN  IF kept = <<>> THEN ps ELSE kept
    ELSE ps

\* variant: `p.get('in_stock', True)`, a record without the field taken
\* for in stock
stock_filter_default_true(ps, in_stock_only) ==
    IF in_stock_only # None
    THEN SelectSeq(ps, LAMBDA p : get(p, "in_stock", TRUE) = in_stock_only[1])
    ELSE ps

stock_filter(ps, in_stock_only) ==
    IF in_stock_only # None
    THEN SelectSeq(ps, LAMBDA p : get(p, "in_stock", FALSE) = in_stock_only[1])
    ELSE ps

\* variant: all(...) instead of any(...), every keyword required
keyword_filter_all(ps, keywords) ==
    IF truthy_list(keywords)
    THEN SelectSeq(ps, LAMBDA p :
             \A k \in 1..Len(keywords[1]) :
                 contains(lower(get(p, "name", <<>>)), lower(keywords[1][k])))
    ELSE ps

\* variant: `if keyword and keyword.lower() in product_name`, an empty
\* keyword matching nothing
keyword_filter_skip_empty(ps, keywords) ==
    IF truthy_list(keywords)
    THEN SelectSeq(ps, LAMBDA p :
             \E k \in 1..Len(keywords[1]) :
                 /\ Len(keywords[1][k]) > 0
                 /\ contains(lower(get(p, "name", <<>>)), lower(keywords[1][k])))
    ELSE ps

keyword_filter(ps, keywords) ==
    IF truthy_list(keywords)
    THEN SelectSeq(ps, LAMBDA p :
             \E k \in 1..Len(keywords[1]) :
                 contains(lower(get(p, "name", <<>>)), lower(keywords[1][k])))
    ELSE ps

-----------------------------------------------------------------------------
(* list.sort(key=..., reverse=...) *)

sort_key(field, p) ==
    CASE field = "price"  -> get(p, "price", 0)
      [] field = "rating" -> get(p, "rating", 0)
      [] field = "name"   -> lower(get(p, "name", <<>>))

key_lt(field, a, b) == IF field = "name" THEN str_lt(a, b) ELSE a < b

Reverse(s) == [i \in 1..Len(s) |-> s[Len(s) + 1 - i]]

\* x placed in the sorted run after every element that is not greater than it
insort(run, x, field) ==
    LET n == Cardinality({i \in 1..Len(run) :
                 ~key_lt(field, sort_key(field, x), sort_key(field, run[i]))})
    IN  SubSeq(run, 1, n) \o <<x>> \o SubSeq(run, n + 1, Len(run))

RECURSIVE sort_prefix(_, _, _)
sort_prefix(s, n, field) ==
    IF n = 0 THEN <<>> ELSE insort(sort_prefix(s, n - 1, field), s[n], field)

\* variant: reverse=True as an ascending sort reversed afterwards
list_sort_reversed_after(s, field, reverse) ==
    IF reverse
    THEN Reverse(sort_prefix(s, Len(s), field))
    ELSE sort_prefix(s, Len(s), field)

\* a stable sort; reverse=True reverses the list before and after sorting,
\* which keeps equal keys in their original order
list_sort(s, field, reverse) ==
    IF reverse
    THEN Reverse(sort_prefix(Reverse(s), Len(s), field))
    ELSE sort_prefix(s, Len(s), field)

\* variant: a default order, by name, when sort_by is absent or empty
apply_sort_default(ps, sort_by) ==
    IF truthy_name(sort_by)
    THEN CASE sort_by[1] = "price_asc"   -> list_sort(ps, "price", FALSE)
           [] sort_by[1] = "price_desc"  -> list_sort(ps, "price", TRUE)
           [] sort_by[1] = "rating_asc"  -> list_sort(ps, "rating", FALSE)
           [] sort_by[1] = "rating_desc" -> list_sort(ps, "rating", TRUE)
           [] sort_by[1] = "name_asc"    -> list_sort(ps, "name", FALSE)
           [] sort_by[1] = "name_desc"   -> list_sort(ps, "name", TRUE)
           [] OTHER -> ps
    ELSE list_sort(ps, "name", FALSE)

\* variant: a final `else:` that sorts by name when the mode is not known
apply_sort_else_by_name(ps, sort_by) ==
    IF truthy_name(sort_by)
    THEN CASE sort_by[1] = "price_asc"   -> list_sort(ps, "price", FALSE)
           [] sort_by[1] = "price_desc"  -> list_sort(ps, "price", TRUE)
           [] sort_by[1] = "rating_asc"  -> list_sort(ps, "rating", FALSE)
           [] sort_by[1] = "rating_desc" -> list_sort(ps, "rating", TRUE)
           [] sort_by[1] = "name_asc"    -> list_sort(ps, "name", FALSE)
           [] sort_by[1] = "name_desc"   -> list_sort(ps, "name", TRUE)
           [] OTHER -> list_sort(ps, "name", FALSE)
    ELSE ps

apply_sort(ps, sort_by) ==
    IF truthy_name(sort_by)
    THEN CASE sort_by[1] = "price_asc"   -> list_sort(ps, "price", FALSE)
           [] sort_by[1] = "price_desc"  -> list_sort(ps, "price", TRUE)
           [] sort_by[1] = "rating_asc"  -> list_sort(ps, "rating", FALSE)
           [] sort_by[1] = "rating_desc" -> list_sort(ps, "rating", TRUE)
           [] sort_by[1] = "name_asc"    -> list_sort(ps, "name", FALSE)
           [] sort_by[1] = "name_desc"   -> list_sort(ps, "name", TRUE)
           [] OTHER -> ps
    ELSE ps

\* variant: `if limit is not None`, the slice taken for every supplied limit
\* (ps[:0] is empty, ps[:-n] drops the last n records)
apply_limit_any(ps, limit) ==
    IF limit # None
    THEN IF limit[1] >= 0
         THEN SubSeq(ps, 1, IF limit[1] < Len(ps) THEN limit[1] ELSE Len(ps))
         ELSE SubSeq(ps, 1, Len(ps) + limit[1])
    ELSE ps

\* variant: `filtered_products[limit:]`, the first records dropped instead
\* of kept
apply_limit_tail(ps, limit) ==
    IF limit # None /\ limit[1] > 0
    THEN SubSeq(ps, (IF limit[1] < Len(ps) THEN limit[1] ELSE Len(ps)) + 1, Len(ps))
    ELSE ps

apply_limit(ps, limit) ==
    IF limit # None /\ limit[1] > 0
    THEN SubSeq(ps, 1, IF limit[1] < Len(ps) THEN limit[1] ELSE Len(ps))
    ELSE ps

\* variant: the limit applied to the input, before the filters
filter_products_limit_input(ps, category, max_price, min_price, price_range, min_rating, max_rating, in_stock_only, keywords, sort_by, limit) ==
    LET by_category == category_filter(apply_limit(ps, limit), category)
        bounds      == resolve_price_range(price_range, min_price, max_price)
        by_price    == price_filter(by_category, bounds.min_price, bounds.max_price)
        by_rating   == rating_filter(by_price, min_rating, max_rating)
        by_stock    == stock_filter(by_rating, in_stock_only)
        by_keyword  == keyword_filter(by_stock, keywords)
    IN  IF bounds.raised
        THEN [raised |-> TRUE, value |-> <<>>]
        ELSE [raised |-> FALSE, value |-> apply_sort(by_keyword, sort_by)]

\* variant: the limit applied before the sort
filter_products_limit_first(ps, category, max_price, min_price, price_range, min_rating, max_rating, in_stock_only, keywords, sort_by, limit) ==
    LET by_category == category_filter(ps, category)
        bounds      == resolve_price_range(price_range, min_price, max_price)
        by_price    == price_filter(by_category, bounds.min_price, bounds.max_price)
        by_rating   == rating_filter(by_price, min_rating, max_rating)
        by_stock    == stock_filter(by_rating, in_stock_only)
        by_keyword  == keyword_filter(by_stock, keywords)
    IN  IF bounds.raised
        THEN [raised |-> TRUE, value |-> <<>>]
        ELSE [raised |-> FALSE,
              value |-> apply_sort(apply_limit(by_keyword, limit), sort_by)]

filter_products_by_criteria(ps, category, max_price, min_price, price_range, min_rating, max_rating, in_stock_only, keywords, sort_by, limit) ==
    LET by_category == category_filter(ps, category)
        bounds      == resolve_price_range(price_range, min_price, max_price)
        by_price    == price_filter(by_category, bounds.min_price, bounds.max_price)
        by_rating   == rating_filter(by_price, min_rating, max_rating)
        by_stock    == stock_filter(by_rating, in_stock_only)
        by_keyword  == keyword_filter(by_stock, keywords)
        sorted      == apply_sort(by_keyword, sort_by)
    IN  IF bounds.raised
        THEN [raised |-> TRUE, value |-> <<>>]
        ELSE [raised |-> FALSE, value |-> apply_limit(sorted, limit)]

-----------------------------------------------------------------------------
(* The caller's list.  The working list filtered_products starts as        *)
(* products.copy(), a new list object; every filter that runs rebinds the  *)
(* name to the new list its comprehension builds; list.sort works in place *)
(* on whatever list the name is bound to at that point.                    *)

\* variant: `filtered_products = products`, the working list is the
\* caller's list itself
list_alias(ps) == [items |-> ps, is_products |-> TRUE]

\* products.copy()
list_copy(ps) == [items |-> ps, is_products |-> FALSE]

\* some filter stage runs, and binds filtered_products to a new list
rebinds(category, bounds, min_rating, max_rating, in_stock_only, keywords) ==
    \/ truthy_text(category)
    \/ bounds.max_price # None
    \/ bounds.min_price # None
    \/ min_rating # None
    \/ max_rating # None
    \/ in_stock_only # None
    \/ truthy_list(keywords)

\* the contents of the caller's list when the call returns: changed only
\* by a sort in place, and only if the sort reaches that very list
caller_products(ps, category, max_price, min_price, price_range, min_rating, max_rating, in_stock_only, keywords, sort_by) ==
    LET working == list_copy(ps)
        bounds  == resolve_price_range(price_range, min_price, max_price)
    IN  IF /\ working.is_products
           /\ ~bounds.raised
           /\ ~rebinds(category, bounds, min_rating, max_rating, in_stock_only, keywords)
        THEN apply_sort(ps, sort_by)
        ELSE ps

-----------------------------------------------------------------------------
(* Inputs *)

\* every sequence over S of length at most n
SeqsUpTo(S, n) == UNION {[1..k -> S] : k \in 0..n}

Opt(S) == {None} \cup {Some(v) : v \in S}

\* text, by code point: "A" is 65, "a" is 97
TxtEmpty == <<>>
TxtA  == <<65>>
Txta  == <<97>>
TxtB  == <<66>>
Txtb  == <<98>>
TxtC  == <<67>>
TxtAb == <<65, 98>>
TxtaB == <<97, 66>>
TxtaC == <<97, 67>>
TxtBA == <<66, 65>>
TxtBooks == <<66, 111, 111, 107, 115>>
TxtBOOKS == <<66, 79, 79, 75, 83>>
TxtBook  == <<66, 111, 111, 107>>
TxtToys  == <<84, 111, 121, 115>>

SortModes == {"price_asc", "price_desc", "rating_asc", "rating_desc",
              "name_asc", "name_desc"}

\* the criteria in which no argument is supplied
NoCriteria ==
    [category |-> None, max_price |-> None, min_price |-> None,
     price_range |-> None, min_rating |-> None, max_rating |-> None,
     in_stock_only |-> None, keywords |-> None, sort_by |-> None, limit |-> None]

\* a price_range value, tagged with its Python type
PrDict(d) == [type |-> "dict", dict |-> d]
PrStr(toks) == [type |-> "str", text |-> toks]
PrInt(n) == [type |-> "int", int |-> n]
PrList(l) == [type |-> "list", list |-> l]

\* the dicts with keys among min and max, each value null or a price
RangeDicts(prices) ==
    UNION {[keys -> Opt(prices)] : keys \in SUBSET {"min", "max"}}

-----------------------------------------------------------------------------
(* Catalogue and criteria of the general specification: every field of a   *)
(* record and every argument but limit varies.                             *)

CatalogueProducts ==
    { [name |-> TxtAb, category |-> TxtBooks, price |-> 1, rating |-> 2, in_stock |-> TRUE],
      [name |-> TxtaC, category |-> TxtBOOKS, price |-> 2, rating |-> 1, in_stock |-> FALSE],
      [name |-> TxtC,  category |-> TxtToys,  price |-> 0, rating |-> 2, in_stock |-> TRUE],
      [name |-> TxtB,  category |-> TxtBook,  price |-> 2, rating |-> 1, in_stock |-> TRUE],
      [name |-> TxtaB, category |-> TxtEmpty, price |-> 1, rating |-> 0, in_stock |-> FALSE],
      EmptyDict }

CatalogueCriteria ==
    [category      : {None, Some(TxtEmpty), Some(TxtBooks)},
     max_price     : {None, Some(1)},
     min_price     : {None, Some(1)},
     price_range   : {None, Some(PrDict([min |-> Some(2)])),
                      Some(PrStr(<<"{", "\"max\"", ":", "1", "}">>))},
     min_rating    : {None, Some(1)},
     max_rating    : {None, Some(1)},
     in_stock_only : {None, Some(TRUE), Some(FALSE)},
     keywords      : {None, Some(<<>>), Some(<<TxtB, Txta>>)},
     sort_by       : {None, Some("name_desc")},
     limit         : {None}]

-----------------------------------------------------------------------------
(* The program: the arguments are given, then the function is applied *)

\* no chat completion is involved in a direct call of the engine
NoResponse == [kind |-> "none"]

NoFile == [kind |-> "none"]

NoRemote == [kind |-> "none"]

\* the audio tool is not running
AudioAtRest ==
    /\ file = NoFile
    /\ step = "off"
    /\ remote = NoRemote
    /\ trace = <<>>
    /\ calls = <<>>
    /\ transcribed = None
    /\ summary = None
    /\ analytics = None
    /\ saved = None
    /\ failure = None

\* the console loop is not running
RunAtRest ==
    /\ inputs = <<>>
    /\ consumed = <<>>
    /\ searched = <<>>
    /\ loop = "off"
    /\ reported = 0
    /\ AudioAtRest

SearchAtRest == response = NoResponse /\ RunAtRest

TypeOK ==
    /\ pc \in {"ready", "done"}
    /\ result.raised \in BOOLEAN

Init ==
    /\ products \in SeqsUpTo(CatalogueProducts, MaxProducts)
    /\ criteria \in CatalogueCriteria
    /\ result = [raised |-> FALSE, value |-> <<>>]
    /\ pc = "ready"
    /\ SearchAtRest

\* one call filter_products_by_criteria(products, **criteria)
Filter ==
    /\ pc = "ready"
    /\ result' = filter_products_by_criteria(products,
                     criteria.category, criteria.max_price, criteria.min_price,
                     criteria.price_range, criteria.min_rating, criteria.max_rating,
                     criteria.in_stock_only, criteria.keywords, criteria.sort_by,
                     criteria.limit)
    /\ products' = caller_products(products,
                       criteria.category, criteria.max_price, criteria.min_price,
                       criteria.price_range, criteria.min_rating, criteria.max_rating,
                       criteria.in_stock_only, criteria.keywords, criteria.sort_by)
    /\ pc' = "done"
    /\ UNCHANGED <<criteria, others, audio>>

Next == Filter

Spec == Init /\ [][Next]_vars

-----------------------------------------------------------------------------
(* Price specification: the records differ in price (one has none), and    *)
(* min_price, max_price and price_range take every value of their kinds.   *)

Prices == 0..MaxPrice

PriceProducts ==
    {[name |-> TxtA, price |-> n] : n \in Prices} \cup {[name |-> TxtB]}

\* JSON text that encodes an object
ObjectTexts ==
    { <<"{", "}">>,
      <<"{", "\"min\"", ":", "1", "}">>,
      <<"{", "\"max\"", ":", "1", "}">>,
      <<"{", "\"min\"", ":", "0", "}">>,
      <<"{", "\"min\"", ":", "2", ",", "\"max\"", ":", "2", "}">>,
      <<"{", "\"min\"", ":", "null", ",", "\"max\"", ":", "0", "}">>,
      <<"{", "\"max\"", ":", "2", ",", "\"max\"", ":", "1", "}">> }

\* JSON text that decodes to something other than an object
NonObjectTexts == { <<"1">>, <<"0">>, <<"null">>, <<"[", "]">> }

\* text that is not valid JSON
InvalidTexts ==
    { <<"x">>,
      <<"{">>,
      <<"{", "\"min\"", ":", "1">>,
      <<"{", "\"min\"", "1", "}">>,
      <<"{", "min", ":", "1", "}">>,
      <<"{", "\"min\"", ":", "1", ",", "}">>,
      <<"{", "\"min\"", ":", "1", "}", "}">>,
      <<"1", "2">>,
      <<>> }

\* values that are neither a dict nor text
OtherRanges == { PrInt(0), PrInt(1), PrList(<<>>), PrList(<<1, 2>>) }

MalformedRanges ==
    {PrStr(t) : t \in NonObjectTexts \cup InvalidTexts} \cup OtherRanges

PriceRanges ==
    {PrDict(d) : d \in RangeDicts(Prices)}
        \cup {PrStr(t) : t \in ObjectTexts}
        \cup MalformedRanges

PriceCriteria ==
    { [NoCriteria EXCEPT !.min_price = lo, !.max_price = hi, !.price_range = pr] :
        lo \in Opt(Prices), hi \in Opt(Prices), pr \in Opt(PriceRanges) }

InitPrice ==
    /\ products \in SeqsUpTo(PriceProducts, MaxProducts)
    /\ criteria \in PriceCriteria
    /\ result = [raised |-> FALSE, value |-> <<>>]
    /\ pc = "ready"
    /\ SearchAtRest

SpecPrice == InitPrice /\ [][Next]_vars

-----------------------------------------------------------------------------
(* Keyword specification: the records differ in name (one has none), the   *)
(* keyword list is absent, empty or holds up to MaxKeywords keywords.      *)

MaxKeywords == 2

KeywordProducts ==
    {[name |-> n, price |-> 1] : n \in {TxtAb, TxtaB, TxtBA, TxtC, TxtEmpty}}
        \cup {[price |-> 1]}

Keywords == {Txta, TxtB, TxtAb, TxtC, TxtaC}

KeywordCriteria ==
    { [NoCriteria EXCEPT !.keywords = ks] : ks \in Opt(SeqsUpTo(Keywords, MaxKeywords)) }

InitKeyword ==
    /\ products \in SeqsUpTo(KeywordProducts, MaxProducts)
    /\ criteria \in KeywordCriteria
    /\ result = [raised |-> FALSE, value |-> <<>>]
    /\ pc = "ready"
    /\ SearchAtRest

SpecKeyword == InitKeyword /\ [][Next]_vars

-----------------------------------------------------------------------------
(* Sort specification: lists of up to MaxSorted records with equal and     *)
(* distinct keys, every sort mode, every limit, and one filter.            *)

SortProducts ==
    { [name |-> Txta, price |-> 1, rating |-> 1],
      [name |-> TxtA, price |-> 1, rating |-> 2],
      [name |-> Txtb, price |-> 2, rating |-> 1],
      [name |-> TxtAb, price |-> 2, rating |-> 2],
      [name |-> TxtB, price |-> 0, rating |-> 2],
      [name |-> TxtaB, price |-> 1, rating |-> 0],
      [name |-> Txta],
      [price |-> 2, rating |-> 2] }

Limits == (-1)..MaxLimit

SortCriteria ==
    { [NoCriteria EXCEPT !.sort_by = sb, !.limit = lim, !.min_rating = mr] :
        sb \in Opt(SortModes \cup {"", "price"}), lim \in Opt(Limits),
        mr \in {None, Some(1)} }

InitSort ==
    /\ products \in SeqsUpTo(SortProducts, MaxSorted)
    /\ criteria \in SortCriteria
    /\ result = [raised |-> FALSE, value |-> <<>>]
    /\ pc = "ready"
    /\ SearchAtRest

SpecSort == InitSort /\ [][Next]_vars

-----------------------------------------------------------------------------
(* Stage specification: each of the five filters is absent or active, and  *)
(* each active filter removes a record that another one keeps.             *)

StageProducts ==
    { [name |-> TxtAb, category |-> TxtBooks, price |-> 1, rating |-> 2, in_stock |-> TRUE],
      [name |-> TxtaC, category |-> TxtBOOKS, price |-> 2, rating |-> 1, in_stock |-> FALSE],
      [name |-> TxtC,  category |-> TxtToys,  price |-> 0, rating |-> 2, in_stock |-> TRUE],
      [name |-> TxtaB, category |-> TxtEmpty, price |-> 1, rating |-> 0, in_stock |-> FALSE] }

StageCriteria ==
    { [NoCriteria EXCEPT !.category = cat, !.max_price = mp, !.min_rating = mr,
                         !.in_stock_only = st, !.keywords = kw, !.sort_by = sb,
                         !.limit = lim] :
        cat \in {None, Some(TxtBooks)}, mp \in {None, Some(1)},
        mr \in {None, Some(1)}, st \in Opt(BOOLEAN),
        kw \in {None, Some(<<TxtB, Txta>>)},
        sb \in {None, Some("name_desc")}, lim \in {None, Some(1)} }

InitStage ==
    /\ products \in SeqsUpTo(StageProducts, MaxProducts)
    /\ criteria \in StageCriteria
    /\ result = [raised |-> FALSE, value |-> <<>>]
    /\ pc = "ready"
    /\ SearchAtRest

SpecStage == InitStage /\ [][Next]_vars

-----------------------------------------------------------------------------
(* Category specification: the categories differ in case, one is a prefix  *)
(* of another, one is empty, and one record has no category.               *)

Categories == {TxtBooks, TxtBOOKS, TxtBook, TxtToys, TxtEmpty}

CategoryProducts ==
    {[name |-> TxtA, category |-> c] : c \in Categories} \cup {[name |-> TxtB]}

CategoryCriteria ==
    { [NoCriteria EXCEPT !.category = cat] : cat \in Opt(Categories) }

InitCategory ==
    /\ products \in SeqsUpTo(CategoryProducts, MaxProducts)
    /\ criteria \in CategoryCriteria
    /\ result = [raised |-> FALSE, value |-> <<>>]
    /\ pc = "ready"
    /\ SearchAtRest

SpecCategory == InitCategory /\ [][Next]_vars

-----------------------------------------------------------------------------
(* Bounds specification: records with and without a price and a rating,    *)
(* the four numeric bounds absent, 0 or 1, a price_range that sets both    *)
(* price bounds to 1, and the sorts by price and by rating.                *)

BoundProducts ==
    { [name |-> TxtA],
      [name |-> TxtB,  price |-> 1],
      [name |-> TxtC,  rating |-> 1],
      [name |-> TxtAb, price |-> 1, rating |-> 1],
      [name |-> Txta,  price |-> 0, rating |-> 0],
      [name |-> TxtaC, price |-> 2, rating |-> 2] }

BoundCriteria ==
    { [NoCriteria EXCEPT !.min_price = lo, !.max_price = hi, !.price_range = pr,
                         !.min_rating = rlo, !.max_rating = rhi, !.sort_by = sb] :
        lo \in Opt({0, 1}), hi \in Opt({0, 1}),
        pr \in {None, Some(PrDict([min |-> Some(1), max |-> Some(1)]))},
        rlo \in Opt({0, 1}), rhi \in Opt({0, 1}),
        sb \in {None, Some("price_asc"), Some("price_desc"),
                Some("rating_asc"), Some("rating_desc")} }

InitBounds ==
    /\ products \in SeqsUpTo(BoundProducts, MaxProducts)
    /\ criteria \in BoundCriteria
    /\ result = [raised |-> FALSE, value |-> <<>>]
    /\ pc = "ready"
    /\ SearchAtRest

SpecBounds == InitBounds /\ [][Next]_vars

-----------------------------------------------------------------------------
(* Zero specification: the numeric bounds absent, 0 or 1, and a            *)
(* price_range, as a dict or as text, whose min or max is 0.               *)

ZeroRanges ==
    { PrDict([min |-> Some(0)]),
      PrDict([max |-> Some(0)]),
      PrDict([min |-> Some(0), max |-> Some(0)]),
      PrStr(<<"{", "\"min\"", ":", "0", "}">>),
      PrStr(<<"{", "\"min\"", ":", "null", ",", "\"max\"", ":", "0", "}">>) }

ZeroCriteria ==
    { [NoCriteria EXCEPT !.min_price = lo, !.max_price = hi, !.price_range = pr,
                         !.min_rating = rlo, !.max_rating = rhi] :
        lo \in Opt({0, 1}), hi \in Opt({0, 1}), pr \in Opt(ZeroRanges),
        rlo \in Opt({0, 1}), rhi \in Opt({0, 1}) }

InitZero ==
    /\ products \in SeqsUpTo(BoundProducts, MaxProducts)
    /\ criteria \in ZeroCriteria
    /\ result = [raised |-> FALSE, value |-> <<>>]
    /\ pc = "ready"
    /\ SearchAtRest

SpecZero == InitZero /\ [][Next]_vars

-----------------------------------------------------------------------------
(* Empty keyword specification: keyword lists that may hold the empty      *)
(* text, records with a name, with an empty name and without one, and the  *)
(* stock filter as the earlier filter.                                     *)

BlankProducts ==
    { [name |-> TxtAb, in_stock |-> TRUE],
      [name |-> TxtBA, in_stock |-> FALSE],
      [name |-> TxtC, in_stock |-> TRUE],
      [name |-> TxtEmpty, in_stock |-> TRUE],
      [in_stock |-> FALSE] }

BlankKeywords == {TxtEmpty, Txta, TxtC}

BlankCriteria ==
    { [NoCriteria EXCEPT !.keywords = ks, !.in_stock_only = st] :
        ks \in Opt(SeqsUpTo(BlankKeywords, MaxKeywords)), st \in Opt(BOOLEAN) }

InitBlank ==
    /\ products \in SeqsUpTo(BlankProducts, MaxProducts)
    /\ criteria \in BlankCriteria
    /\ result = [raised |-> FALSE, value |-> <<>>]
    /\ pc = "ready"
    /\ SearchAtRest

SpecBlank == InitBlank /\ [][Next]_vars

-----------------------------------------------------------------------------
(* ProductSearchTool.search_products.  What the chat completion call does  *)
(* is the environment's choice: it raises, or it returns a response with   *)
(* no choices, or one whose first message has no function call, or a       *)
(* function call with a name and an arguments text.                        *)

ApiError == [kind |-> "error"]

NoChoices == [kind |-> "no_choices"]

NoFunctionCall == [kind |-> "message"]

FunctionCall(name, arguments) == [kind |-> "function_call", name |-> name, arguments |-> arguments]

\* criteria.get(key): the value decoded for the key, None for a key not
\* given or given as null
criteria_get(decoded, key) == get(decoded, key, None)

\* the body of the try block: exc is the exception it ends with ("none":
\* it reached a return), value the pair it returns
search_body(ps, resp) ==
    IF resp.kind = "error" THEN [exc |-> "APIError"]
    ELSE IF resp.kind = "no_choices" THEN [exc |-> "IndexError"]
    ELSE IF resp.kind = "function_call" /\ resp.name = "filter_products"
    THEN LET decoded == json_loads(resp.arguments)
         IN  IF ~decoded.ok THEN [exc |-> "JSONDecodeError"]
             ELSE IF decoded.type # "dict" THEN [exc |-> "AttributeError"]
             ELSE LET filtered_products ==
                          filter_products_by_criteria(ps,
                              criteria_get(decoded.value, "category"),
                              criteria_get(decoded.value, "max_price"),
                              criteria_get(decoded.value, "min_price"),
                              criteria_get(decoded.value, "price_range"),
                              criteria_get(decoded.value, "min_rating"),
                              criteria_get(decoded.value, "max_rating"),
                              criteria_get(decoded.value, "in_stock_only"),
                              criteria_get(decoded.value, "keywords"),
                              criteria_get(decoded.value, "sort_by"),
                              criteria_get(decoded.value, "limit"))
                  IN  IF filtered_products.raised
                      THEN [exc |-> "TypeError"]
                      ELSE [exc |-> "none",
                            value |-> <<filtered_products.value, decoded.value>>]
    ELSE [exc |-> "none", value |-> <<<<>>, EmptyDict>>]

\* variant: `except openai.APIError`, the handler taking the failures of
\* the API call only
search_except_api_only(body) ==
    IF body.exc = "none" THEN [raised |-> FALSE, value |-> body.value]
    ELSE IF body.exc = "APIError" THEN [raised |-> FALSE, value |-> <<<<>>, EmptyDict>>]
    ELSE [raised |-> TRUE, value |-> <<>>]

\* `except Exception as e: ... return [], {}`
search_except(body) ==
    IF body.exc = "none" THEN [raised |-> FALSE, value |-> body.value]
    ELSE IF body.exc \in {"APIError", "IndexError", "JSONDecodeError", "AttributeError", "TypeError"}
    THEN [raised |-> FALSE, value |-> <<<<>>, EmptyDict>>]
    ELSE [raised |-> TRUE, value |-> <<>>]

search_products(ps, resp) == search_except(search_body(ps, resp))

\* arguments texts that encode a criteria mapping
CriteriaTexts ==
    { <<"{", "}">>,
      <<"{", "\"max_price\"", ":", "1", "}">>,
      <<"{", "\"max_price\"", ":", "0", "}">>,
      <<"{", "\"min_rating\"", ":", "1", "}">>,
      <<"{", "\"limit\"", ":", "1", "}">>,
      <<"{", "\"max_price\"", ":", "1", ",", "\"min_rating\"", ":", "1", "}">>,
      <<"{", "\"max_price\"", ":", "null", ",", "\"limit\"", ":", "2", "}">>,
      <<"{", "\"limit\"", ":", "2", ",", "\"limit\"", ":", "1", "}">>,
      <<"{", "\"max\"", ":", "1", "}">> }

\* arguments texts that encode no mapping: invalid JSON, and JSON values
\* of another type
UndecodableTexts ==
    { <<>>,
      <<"x">>,
      <<"{">>,
      <<"{", "\"limit\"", ":", "1">>,
      <<"{", "\"limit\"", "1", "}">>,
      <<"{", "\"limit\"", ":", "1", "}", "}">>,
      <<"1">>,
      <<"null">>,
      <<"[", "]">> }

FunctionNames == {"filter_products", "other"}

ApiOutcomes ==
    {ApiError, NoChoices, NoFunctionCall}
        \cup {FunctionCall(n, a) : n \in FunctionNames, a \in CriteriaTexts \cup UndecodableTexts}

InitSearch ==
    /\ products \in SeqsUpTo(BoundProducts, MaxProducts)
    /\ criteria = NoCriteria
    /\ response \in ApiOutcomes
    /\ result = [raised |-> FALSE, value |-> <<>>]
    /\ pc = "ready"
    /\ RunAtRest

\* one call self.search_products(user_query); self.products is handed to
\* the engine, which works on a copy of it
Search ==
    /\ pc = "ready"
    /\ result' = search_products(products, response)
    /\ pc' = "done"
    /\ UNCHANGED <<products, criteria, others, audio>>

NextSearch == Search

SpecSearch == InitSearch /\ [][NextSearch]_vars

-----------------------------------------------------------------------------
(* ProductSearchTool.run.  What arrives at the prompt is the environment's *)
(* choice: a line of text, KeyboardInterrupt, or the end of the input      *)
(* (EOFError).  What happens while a query is handled, in search_products  *)
(* and display_results, is its choice too: nothing, an exception (a        *)
(* product without a name makes display_results raise KeyError), or        *)
(* KeyboardInterrupt.                                                      *)

Line(text, outcome) == [kind |-> "line", text |-> text, outcome |-> outcome]

Interrupt == [kind |-> "interrupt"]

EndOfFile == [kind |-> "eof"]

\* str.isspace on the code points below 256
is_space(c) == c \in (9..13) \cup (28..32) \cup {133, 160}

RECURSIVE lstrip(_)
lstrip(s) == IF s # <<>> /\ is_space(Head(s)) THEN lstrip(Tail(s)) ELSE s

RECURSIVE rstrip(_)
rstrip(s) == IF s # <<>> /\ is_space(s[Len(s)]) THEN rstrip(SubSeq(s, 1, Len(s) - 1)) ELSE s

\* str.strip()
strip(s) == rstrip(lstrip(s))

TxtSpace == <<32>>
Txtq == <<113>>
TxtQPadded == <<32, 81, 32>>
Txtquit == <<113, 117, 105, 116>>
Txtexit == <<101, 120, 105, 116>>
TxtEXIT == <<69, 88, 73, 84>>
Txtqa == <<113, 97>>
TxtqaPadded == <<32, 113, 97, 9>>

\* ['quit', 'exit', 'q']
QuitCommands == {Txtquit, Txtexit, Txtq}

\* variant: `user_query in ['quit', 'exit', 'q']`, the command compared
\* as typed
is_quit_as_typed(user_query) == user_query \in QuitCommands

\* user_query.lower() in ['quit', 'exit', 'q']
is_quit(user_query) == lower(user_query) \in QuitCommands

\* lines that are empty once trimmed
BlankLines == {TxtEmpty, TxtSpace}

\* lines that are a quit command once trimmed and lower-cased
QuitLines == {Txtq, TxtQPadded, Txtquit, TxtEXIT}

\* the other lines
QueryLines == {Txta, TxtqaPadded}

Outcomes == {"ok", "error", "interrupt"}

Arrivals ==
    {Line(t, "ok") : t \in BlankLines \cup QuitLines}
        \cup {Line(t, o) : t \in QueryLines, o \in Outcomes}
        \cup {Interrupt, EndOfFile}

InitRun ==
    /\ products = <<>>
    /\ criteria = NoCriteria
    /\ result = [raised |-> FALSE, value |-> <<>>]
    /\ pc = "ready"
    /\ response = NoResponse
    /\ inputs \in SeqsUpTo(Arrivals, MaxInputs)
    /\ consumed = <<>>
    /\ searched = <<>>
    /\ loop = "prompt"
    /\ reported = 0
    /\ AudioAtRest

\* input(...).strip() and the tests that follow it, with the handlers of
\* the exceptions that input raises
Prompt ==
    /\ loop = "prompt"
    /\ inputs # <<>>
    /\ inputs' = Tail(inputs)
    /\ consumed' = Append(consumed, Head(inputs))
    /\ LET arrival == Head(inputs)
       IN  IF arrival.kind = "interrupt"
           THEN loop' = "ended" /\ reported' = reported
           ELSE IF arrival.kind = "eof"
           THEN loop' = "prompt" /\ reported' = reported + 1
           ELSE LET user_query == strip(arrival.text)
                IN  /\ reported' = reported
                    /\ loop' = IF is_quit(user_query) THEN "ended"
                               ELSE IF user_query = <<>> THEN "prompt"
                               ELSE "searching"
    /\ UNCHANGED <<products, criteria, result, pc, response, searched, audio>>

\* self.search_products(user_query), self.display_results(...), with the
\* handlers of what they raise
Handle ==
    /\ loop = "searching"
    /\ LET arrival == consumed[Len(consumed)]
       IN  /\ searched' = Append(searched, strip(arrival.text))
           /\ loop' = IF arrival.outcome = "interrupt" THEN "ended" ELSE "prompt"
           /\ reported' = IF arrival.outcome = "error" THEN reported + 1 ELSE reported
    /\ UNCHANGED <<products, criteria, result, pc, response, inputs, consumed, audio>>

NextRun == Prompt \/ Handle

SpecRun == InitRun /\ [][NextRun]_vars

-----------------------------------------------------------------------------
(* Task-11, AudioAnalyzer.  The values json.loads builds from a model      *)
(* response.  A response text is the sequence of its JSON tokens (white    *)
(* space between tokens, which strip() and json.loads both pass over, is   *)
(* not written).  A float is kept by its kind and, when finite, by its     *)
(* number of halves, so that 0.5 is one half and int() can truncate it.    *)

PyNone == [type |-> "NoneType"]

PyBool(b) == [type |-> "bool", bool |-> b]

PyInt(n) == [type |-> "int", int |-> n]

PyFloat(h) == [type |-> "float", kind |-> "finite", halves |-> h]

PyInf == [type |-> "float", kind |-> "inf", halves |-> 0]

PyNaN == [type |-> "float", kind |-> "nan", halves |-> 0]

PyStr(s) == [type |-> "str", str |-> s]

PyList(l) == [type |-> "list", items |-> l]

PyDict(d) == [type |-> "dict", entries |-> d]

JsonNumbers ==
    {"0", "1", "2", "3", "4", "5", "6", "7", "-1", "0.5", "1.5", "2.0", "2.5", "-0.5", "NaN", "Infinity"}

json_number(t) ==
    CASE t = "0" -> PyInt(0)
      [] t = "1" -> PyInt(1)
      [] t = "2" -> PyInt(2)
      [] t = "3" -> PyInt(3)
      [] t = "4" -> PyInt(4)
      [] t = "5" -> PyInt(5)
      [] t = "6" -> PyInt(6)
      [] t = "7" -> PyInt(7)
      [] t = "-1" -> PyInt(-1)
      [] t = "0.5" -> PyFloat(1)
      [] t = "1.5" -> PyFloat(3)
      [] t = "2.0" -> PyFloat(4)
      [] t = "2.5" -> PyFloat(5)
      [] t = "-0.5" -> PyFloat(-1)
      [] t = "NaN" -> PyNaN
      [] t = "Infinity" -> PyInf

JsonStrings ==
    {"\"topics\"", "\"topic\"", "\"mentions\"", "\"a\"", "\"b\"", "\"c\"", "\"d\"",
     "\"e\"", "\"f\"", "\"g\"", "\"h\"", "\"2\""}

json_string(t) ==
    CASE t = "\"topics\"" -> "topics"
      [] t = "\"topic\"" -> "topic"
      [] t = "\"mentions\"" -> "mentions"
      [] t = "\"a\"" -> "a"
      [] t = "\"b\"" -> "b"
      [] t = "\"c\"" -> "c"
      [] t = "\"d\"" -> "d"
      [] t = "\"e\"" -> "e"
      [] t = "\"f\"" -> "f"
      [] t = "\"g\"" -> "g"
      [] t = "\"h\"" -> "h"
      [] t = "\"2\"" -> "2"

Decoded(v, next) == [ok |-> TRUE, value |-> v, next |-> next]

RECURSIVE decode_value(_, _)
RECURSIVE decode_array(_, _, _)
RECURSIVE decode_object(_, _, _)

\* the value that starts at token i, and the position after it
decode_value(toks, i) ==
    IF i > Len(toks) THEN DecodeError
    ELSE CASE toks[i] \in JsonNumbers -> Decoded(json_number(toks[i]), i + 1)
           [] toks[i] \in JsonStrings -> Decoded(PyStr(json_string(toks[i])), i + 1)
           [] toks[i] = "null" -> Decoded(PyNone, i + 1)
           [] toks[i] = "true" -> Decoded(PyBool(TRUE), i + 1)
           [] toks[i] = "false" -> Decoded(PyBool(FALSE), i + 1)
           [] toks[i] = "[" ->
                IF i + 1 <= Len(toks) /\ toks[i + 1] = "]"
                THEN Decoded(PyList(<<>>), i + 2)
                ELSE decode_array(toks, i + 1, <<>>)
           [] toks[i] = "{" ->
                IF i + 1 <= Len(toks) /\ toks[i + 1] = "}"
                THEN Decoded(PyDict(EmptyDict), i + 2)
                ELSE decode_object(toks, i + 1, EmptyDict)
           [] OTHER -> DecodeError

\* the elements of an array from token i on; acc holds those read so far
decode_array(toks, i, acc) ==
    LET v == decode_value(toks, i)
    IN  IF ~v.ok \/ v.next > Len(toks) THEN DecodeError
        ELSE IF toks[v.next] = "]" THEN Decoded(PyList(Append(acc, v.value)), v.next + 1)
        ELSE IF toks[v.next] = "," THEN decode_array(toks, v.next + 1, Append(acc, v.value))
        ELSE DecodeError

\* the pairs of an object from token i on; acc holds those read so far
decode_object(toks, i, acc) ==
    IF i + 1 > Len(toks) \/ toks[i] \notin JsonStrings \/ toks[i + 1] # ":" THEN DecodeError
    ELSE LET v == decode_value(toks, i + 2)
         IN  IF ~v.ok \/ v.next > Len(toks) THEN DecodeError
             ELSE LET d == dict_set(acc, json_string(toks[i]), v.value)
                  IN  IF toks[v.next] = "}" THEN Decoded(PyDict(d), v.next + 1)
                      ELSE IF toks[v.next] = "," THEN decode_object(toks, v.next + 1, d)
                      ELSE DecodeError

\* json.loads(text): the value of the whole text; anything else, text left
\* over after the value included, is a JSONDecodeError
json_decode(toks) ==
    LET v == decode_value(toks, 1)
    IN  IF v.ok /\ v.next = Len(toks) + 1
        THEN [exc |-> "none", value |-> v.value]
        ELSE [exc |-> "JSONDecodeError"]

-----------------------------------------------------------------------------
(* AudioAnalyzer.extract_analytics: the topics of the value it returns.    *)
(* Each of its two requests to the chat API raises, answers without a      *)
(* choice, or answers with a message whose content is None or a text.      *)

Content(c) == [kind |-> "content", content |-> c]

\* `content.strip() if content else ""`
content_text(resp) == IF resp.content = None THEN <<>> ELSE resp.content[1]

\* what response.choices[0].message.content does with the outcome of a request
message_content(resp) ==
    CASE resp.kind = "error" -> [exc |-> "APIError"]
      [] resp.kind = "no_choices" -> [exc |-> "IndexError"]
      [] resp.kind = "content" -> [exc |-> "none", value |-> content_text(resp)]

GeneralDiscussion == [topic |-> "General Discussion", mentions |-> 1]

\* the topics named in the counting prompt
identified_topics(text) ==
    LET decoded == json_decode(text)
    IN  IF decoded.exc = "none" /\ decoded.value.type = "list"
        THEN decoded.value.items
        ELSE <<PyStr("General Discussion")>>

\* isinstance(mention_count, (int, float)); a bool is an int
is_number(v) == v.type \in {"int", "float", "bool"}

\* mention_count > 0
is_positive(v) ==
    CASE v.type = "int" -> v.int > 0
      [] v.type = "bool" -> v.bool
      [] v.type = "float" -> v.kind = "inf" \/ (v.kind = "finite" /\ v.halves > 0)

\* int(mention_count): a float is truncated towards zero
int_of(v) ==
    CASE v.type = "int" -> [exc |-> "none", value |-> v.int]
      [] v.type = "bool" -> [exc |-> "none", value |-> IF v.bool THEN 1 ELSE 0]
      [] v.type = "float" /\ v.kind = "inf" -> [exc |-> "OverflowError"]
      [] v.type = "float" /\ v.kind = "nan" -> [exc |-> "ValueError"]
      [] v.type = "float" /\ v.kind = "finite" ->
            [exc |-> "none",
             value |-> IF v.halves >= 0 THEN v.halves \div 2 ELSE -((-v.halves) \div 2)]

int_str(n) ==
    CASE n = -1 -> "-1" [] n = 0 -> "0" [] n = 1 -> "1" [] n = 2 -> "2" [] n = 3 -> "3"
      [] n = 4 -> "4" [] n = 5 -> "5" [] n = 6 -> "6" [] n = 7 -> "7"

float_str(v) ==
    CASE v.kind = "inf" -> "inf"
      [] v.kind = "nan" -> "nan"
      [] v.halves = -1 -> "-0.5"
      [] v.halves = 1 -> "0.5"
      [] v.halves = 3 -> "1.5"
      [] v.halves = 4 -> "2.0"
      [] v.halves = 5 -> "2.5"

\* str(topic["topic"]) of a string, a number, a bool or None
str_of(v) ==
    CASE v.type = "str" -> v.str
      [] v.type = "NoneType" -> "None"
      [] v.type = "bool" -> IF v.bool THEN "True" ELSE "False"
      [] v.type = "int" -> int_str(v.int)
      [] v.type = "float" -> float_str(v)

\* isinstance(topic, dict) and "topic" in topic and "mentions" in topic
is_entry(v) ==
    /\ v.type = "dict"
    /\ "topic" \in DOMAIN v.entries
    /\ "mentions" \in DOMAIN v.entries

\* isinstance(mention_count, (int, float)) and mention_count > 0
accepts_count(v) == is_number(v) /\ is_positive(v)

RECURSIVE valid_topics(_, _, _)
\* the loop over the topics: items from position i on, acc the valid ones so far
valid_topics(items, i, acc) ==
    IF i > Len(items) THEN [exc |-> "none", value |-> acc]
    ELSE IF is_entry(items[i]) /\ accepts_count(items[i].entries["mentions"])
         THEN LET mentions == int_of(items[i].entries["mentions"])
              IN  IF mentions.exc # "none" THEN [exc |-> mentions.exc]
                  ELSE valid_topics(items, i + 1,
                           Append(acc, [topic |-> str_of(items[i].entries["topic"]),
                                        mentions |-> mentions.value]))
    ELSE valid_topics(items, i + 1, acc)

\* x placed in the descending run after every element that is not smaller
insort_mentions(run, x) ==
    LET n == Cardinality({i \in 1..Len(run) : run[i].mentions >= x.mentions})
    IN  SubSeq(run, 1, n) \o <<x>> \o SubSeq(run, n + 1, Len(run))

RECURSIVE sorted_prefix(_, _)
sorted_prefix(s, n) ==
    IF n = 0 THEN <<>> ELSE insort_mentions(sorted_prefix(s, n - 1), s[n])

\* sorted(valid_topics, key=lambda x: x["mentions"], reverse=True), stable
sorted_by_mentions(s) == sorted_prefix(s, Len(s))

\* [:5]
top_five(s) == SubSeq(s, 1, IF Len(s) < 5 THEN Len(s) ELSE 5)

\* `if not topics: topics = [{"topic": "General Discussion", "mentions": 1}]`
or_fallback(topics) == IF topics = <<>> THEN <<GeneralDiscussion>> ELSE topics

\* what `for topic in topics` runs over: the items of a list; the
\* characters of a string and the keys of a dict are strings, none of them
\* an entry; anything else is not iterable
topics_of(data) ==
    IF data.type # "dict" THEN [exc |-> "AttributeError"]
    ELSE LET topics == get(data.entries, "topics", PyList(<<>>))
         IN  CASE topics.type = "list" -> valid_topics(topics.items, 1, <<>>)
               [] topics.type \in {"str", "dict"} -> [exc |-> "none", value |-> <<>>]
               [] OTHER -> [exc |-> "TypeError"]

\* the inner try block over the counting response, with its
\* `except json.JSONDecodeError`
counted_topics(text) ==
    LET decoded == json_decode(text)
    IN  IF decoded.exc # "none" THEN [exc |-> "none", value |-> <<GeneralDiscussion>>]
        ELSE LET valid == topics_of(decoded.value)
             IN  IF valid.exc # "none" THEN valid
                 ELSE [exc |-> "none",
                       value |-> or_fallback(top_five(sorted_by_mentions(valid.value)))]

\* a request to the remote API: the prompt it carries and, in a counting
\* prompt, the topics it names
Request(api, prompt, topics) == [api |-> api, prompt |-> prompt, topics |-> topics]

\* the try block: the identification request, then the counting request
analytics_body(first, second) ==
    LET identify == Request("chat", "topic_identification", None)
        topic_content == message_content(first)
    IN  IF topic_content.exc # "none"
        THEN [exc |-> topic_content.exc, topics |-> <<>>, requests |-> <<identify>>]
        ELSE LET count == Request("chat", "topic_counting",
                                  Some(identified_topics(topic_content.value)))
                 count_content == message_content(second)
             IN  IF count_content.exc # "none"
                 THEN [exc |-> count_content.exc, topics |-> <<>>,
                       requests |-> <<identify, count>>]
                 ELSE LET topics == counted_topics(count_content.value)
                      IN  IF topics.exc # "none"
                          THEN [exc |-> topics.exc, topics |-> <<>>,
                                requests |-> <<identify, count>>]
                          ELSE [exc |-> "none", topics |-> topics.value,
                                requests |-> <<identify, count>>]

\* variant: no handler around the requests
analytics_except_none(body) == body

\* `except Exception as e: ... return {... fallback analytics ...}`
analytics_except(body) ==
    IF body.exc = "none" THEN body
    ELSE [exc |-> "none", topics |-> <<GeneralDiscussion>>, requests |-> body.requests]

\* extract_analytics(transcription, audio_duration, language), as far as
\* the topics and the requests go
extract_analytics(first, second) == analytics_except(analytics_body(first, second))

-----------------------------------------------------------------------------
(* AudioAnalyzer.process_audio_file.  Each step of it is one action.  The  *)
(* file is what validate_audio_file looks at: whether it exists, its       *)
(* suffix and its size in bytes.  The environment decides what each        *)
(* request to the remote API answers, whether the file can be opened for   *)
(* reading and which of the result files cannot be written.  The duration  *)
(* get_audio_duration returns (it catches every exception) and the word    *)
(* statistics of the analytics are computed locally and are not kept.      *)

Txt_mp3  == <<46, 109, 112, 51>>
Txt_MP3  == <<46, 77, 80, 51>>
Txt_wav  == <<46, 119, 97, 118>>
Txt_m4a  == <<46, 109, 52, 97>>
Txt_mp4  == <<46, 109, 112, 52>>
Txt_mpeg == <<46, 109, 112, 101, 103>>
Txt_mpga == <<46, 109, 112, 103, 97>>
Txt_webm == <<46, 119, 101, 98, 109>>
Txt_txt  == <<46, 116, 120, 116>>

Txt_en == <<101, 110>>
Txt_es == <<101, 115>>
Txt_ES_padded == <<32, 69, 83, 10>>
Txt_eng == <<101, 110, 103>>
Txt_e1 == <<101, 49>>
Txt_a_padded == <<32, 97, 32>>

SUPPORTED_FORMATS ==
    {Txt_mp3, Txt_wav, Txt_m4a, Txt_mp4, Txt_mpeg, Txt_mpga, Txt_webm}

MAX_FILE_SIZE == 25 * 1024 * 1024

AudioFile(exists, suffix, size) ==
    [kind |-> "file", exists |-> exists, suffix |-> suffix, size |-> size]

\* variant: the size is looked at before the suffix
validate_audio_file_size_first(f) ==
    IF ~f.exists THEN [valid |-> FALSE, message |-> "File not found"]
    ELSE IF f.size > MAX_FILE_SIZE THEN [valid |-> FALSE, message |-> "File too large"]
    ELSE IF lower(f.suffix) \notin SUPPORTED_FORMATS
         THEN [valid |-> FALSE, message |-> "Unsupported format"]
    ELSE [valid |-> TRUE, message |-> "Valid audio file"]

validate_audio_file(f) ==
    IF ~f.exists THEN [valid |-> FALSE, message |-> "File not found"]
    ELSE IF lower(f.suffix) \notin SUPPORTED_FORMATS
         THEN [valid |-> FALSE, message |-> "Unsupported format"]
    ELSE IF f.size > MAX_FILE_SIZE THEN [valid |-> FALSE, message |-> "File too large"]
    ELSE [valid |-> TRUE, message |-> "Valid audio file"]

\* an exception leaving process_audio_file
Raised(exc, message) == [exc |-> exc, message |-> message]

\* str.isalpha on the code points below 256
is_alpha_char(c) ==
    c \in (65..90) \cup (97..122) \cup {170, 181, 186} \cup (192..214) \cup (216..246) \cup (248..255)

is_alpha(s) == s # <<>> /\ \A i \in 1..Len(s) : is_alpha_char(s[i])

\* MultilingualTextProcessor.detect_language_with_ai(text, client): no
\* request for a blank text, and 'en' whenever the request fails or the
\* answer is not a two-letter code
detect_language_with_ai(text, outcome) ==
    IF strip(text) = <<>> THEN [language |-> Txt_en, requests |-> <<>>]
    ELSE LET detected_lang ==
                 IF outcome.kind # "content" THEN Txt_en
                 ELSE IF outcome.content = None \/ outcome.content[1] = <<>> THEN Txt_en
                 ELSE lower(strip(outcome.content[1]))
         IN  [language |-> IF Len(detected_lang) = 2 /\ is_alpha(detected_lang)
                           THEN detected_lang ELSE Txt_en,
              requests |-> <<Request("chat", "language_detection", None)>>]

\* what the transcription request meets: a file that cannot be opened
\* (no request is made), a failing request, or a response
Unreadable == [kind |-> "unreadable"]

Transcript(text, language) == [kind |-> "transcript", text |-> text, language |-> language]

\* variant: a failed transcription request gives an empty transcription
transcribe_audio_swallow(whisper, detection) ==
    IF whisper.kind = "unreadable"
    THEN [exc |-> "none", transcription |-> <<>>, language |-> Txt_en, requests |-> <<>>]
    ELSE [exc |-> "none", transcription |-> <<>>, language |-> Txt_en,
          requests |-> <<Request("audio", "transcription", None)>>]

\* transcribe_audio(file_path); a language the response does not carry
\* counts as 'en', and 'en' or no language is looked up again from the text
transcribe_audio(whisper, detection) ==
    CASE whisper.kind = "unreadable" -> [exc |-> "OSError", requests |-> <<>>]
      [] whisper.kind = "error" ->
            [exc |-> "APIError", requests |-> <<Request("audio", "transcription", None)>>]
      [] whisper.kind = "transcript" ->
            LET transcription ==
                    IF whisper.text = None \/ whisper.text[1] = <<>> THEN <<>>
                    ELSE strip(whisper.text[1])
                detected_language ==
                    IF whisper.language = None THEN Txt_en ELSE whisper.language[1]
                looked_up == detect_language_with_ai(transcription, detection)
                again == detected_language = <<>> \/ detected_language = Txt_en
            IN  [exc |-> "none",
                 transcription |-> transcription,
                 language |-> IF again THEN looked_up.language ELSE detected_language,
                 requests |-> <<Request("audio", "transcription", None)>>
                                 \o (IF again THEN looked_up.requests ELSE <<>>)]

\* generate_summary(transcription, language): the failures of the request
\* are logged and raised again
generate_summary(outcome) ==
    CASE outcome.kind = "error" ->
            [exc |-> "APIError", requests |-> <<Request("chat", "summary", None)>>]
      [] outcome.kind = "no_choices" ->
            [exc |-> "IndexError", requests |-> <<Request("chat", "summary", None)>>]
      [] outcome.kind = "content" ->
            [exc |-> "none",
             summary |-> IF outcome.content = None \/ outcome.content[1] = <<>> THEN <<>>
                         ELSE strip(outcome.content[1]),
             requests |-> <<Request("chat", "summary", None)>>]

ResultFiles == {"transcription", "summary", "analytics"}

\* save_results(...): every file is written in a try block of its own, and
\* the files written are returned
save_results(unwritable) == ResultFiles \ unwritable

-----------------------------------------------------------------------------
(* The responses extract_analytics is run on *)

MaxTopics == 6

TopicNames == <<"\"a\"", "\"b\"", "\"c\"", "\"d\"", "\"e\"", "\"f\"", "\"g\"">>

\* {"topic": t, "mentions": m}
EntryText(t, m) == <<"{", "\"topic\"", ":">> \o t \o <<",", "\"mentions\"", ":">> \o m \o <<"}">>

RECURSIVE ArrayBody(_, _)
\* the texts of a sequence of values, with commas between them
ArrayBody(texts, n) ==
    IF n = 0 THEN <<>>
    ELSE IF n = 1 THEN texts[1]
    ELSE ArrayBody(texts, n - 1) \o <<",">> \o texts[n]

ArrayText(texts) == <<"[">> \o ArrayBody(texts, Len(texts)) \o <<"]">>

\* {"topics": value}
TopicsText(value) == <<"{", "\"topics\"", ":">> \o value \o <<"}">>

\* counts a list is long enough to be cut and sorted with
LongCounts == {"1", "2", "0.5"}

\* up to MaxTopics entries, the i-th named after its place
LongTexts ==
    {TopicsText(ArrayText([i \in 1..Len(ms) |-> EntryText(<<TopicNames[i]>>, <<ms[i]>>)])) :
        ms \in SeqsUpTo(LongCounts, MaxTopics)}

MentionTexts ==
    { <<"0">>, <<"1">>, <<"3">>, <<"-1">>, <<"0.5">>, <<"1.5">>, <<"2.0">>, <<"-0.5">>,
      <<"true">>, <<"false">>, <<"null">>, <<"\"2\"">>, <<"NaN">>, <<"Infinity">>,
      <<"[", "1", "]">>, <<"{", "}">> }

\* what a list of topics may hold: entries with every kind of count, entries
\* named by a number or by null, entries short of a key, and other values
ItemTexts ==
    {EntryText(<<"\"a\"">>, m) : m \in MentionTexts}
        \cup { EntryText(<<"1">>, <<"2">>), EntryText(<<"null">>, <<"1">>),
               EntryText(<<"true">>, <<"1">>), EntryText(<<"1.5">>, <<"1">>),
               <<"{", "\"topic\"", ":", "\"a\"", "}">>,
               <<"{", "\"mentions\"", ":", "1", "}">>,
               <<"{", "\"mentions\"", ":", "1", ",", "\"topic\"", ":", "\"b\"", ",", "\"mentions\"", ":", "2", "}">>,
               <<"{", "}">>, <<"1">>, <<"\"a\"">>, <<"null">>, <<"[", "]">> }

\* lists of up to two such items
ShortTexts == {TopicsText(ArrayText(items)) : items \in SeqsUpTo(ItemTexts, 2)}

\* responses with no list under "topics", or that are no object
OtherTexts ==
    { <<"{", "}">>,
      TopicsText(<<"null">>), TopicsText(<<"1">>), TopicsText(<<"\"a\"">>),
      TopicsText(<<"{", "}">>), TopicsText(<<"{", "\"a\"", ":", "1", "}">>),
      <<"{", "\"a\"", ":", "1", ",", "\"topics\"", ":", "[", "]", "}">>,
      <<"[", "]">>, <<"[">> \o EntryText(<<"\"a\"">>, <<"1">>) \o <<"]">>,
      <<"1">>, <<"null">>, <<"\"a\"">>, <<"true">> }

\* texts json.loads rejects
UndecodableCounts ==
    { <<>>, <<"{">>, <<"}">>, <<"{", "}", "}">>, <<"a">>,
      <<"{", "\"topics\"", ":", "[", "]">>,
      <<"{", "\"topics\"", ":", "[", "1", ",", "]", "}">>,
      <<"{", "\"topics\"", "[", "]", "}">>,
      <<"{", "\"topics\"", ":", "[", "]", ",", "}">>,
      <<"{", "1", ":", "[", "]", "}">> }

ChatOutcomes(texts) ==
    {ApiError, NoChoices, Content(None)} \cup {Content(Some(t)) : t \in texts}

\* answers to the identification request
TopicTexts ==
    { <<"[", "\"a\"", ",", "\"b\"", "]">>, <<"[", "]">>, <<"{", "}">>, <<"\"a\"">>, <<"[">> }

Remote(first, second) == [topic_response |-> first, count_response |-> second]

\* a list of topics named well, and the answers to the counting request;
\* the long lists come with that one answer to the first request
Remotes ==
    {Remote(first, second) :
        first \in ChatOutcomes(TopicTexts),
        second \in ChatOutcomes(ShortTexts \cup OtherTexts \cup UndecodableCounts)}
      \cup {Remote(Content(Some(<<"[", "\"a\"", ",", "\"b\"", "]">>)), Content(Some(t))) :
                t \in LongTexts}

InitAnalytics ==
    /\ products = <<>>
    /\ criteria = NoCriteria
    /\ result = [raised |-> FALSE, value |-> <<>>]
    /\ pc = "done"
    /\ response = NoResponse
    /\ inputs = <<>>
    /\ consumed = <<>>
    /\ searched = <<>>
    /\ loop = "off"
    /\ reported = 0
    /\ file = NoFile
    /\ step = "analyze"
    /\ remote \in Remotes
    /\ trace = <<>>
    /\ calls = <<>>
    /\ transcribed = None
    /\ summary = None
    /\ analytics = None
    /\ saved = None
    /\ failure = None

\* one call self.extract_analytics(transcription, audio_duration, language);
\* an exception that leaves it ends the processing
Analyze ==
    /\ step = "analyze"
    /\ LET returned == extract_analytics(remote.topic_response, remote.count_response)
       IN  /\ calls' = calls \o returned.requests
           /\ analytics' = IF returned.exc = "none" THEN Some(returned.topics) ELSE None
           /\ step' = IF returned.exc = "none" THEN "save" ELSE "raised"
           /\ failure' = IF returned.exc = "none" THEN None
                         ELSE Some(Raised(returned.exc, ""))
    /\ trace' = Append(trace, "analyze")
    /\ UNCHANGED <<products, criteria, result, pc, others>>
    /\ UNCHANGED <<file, remote, transcribed, summary, saved>>

NextAnalytics == Analyze

SpecAnalytics == InitAnalytics /\ [][NextAnalytics]_vars

Service(whisper, detection, summarizer, first, second, unwritable) ==
    [whisper |-> whisper, detection |-> detection, summarizer |-> summarizer,
     topic_response |-> first, count_response |-> second, unwritable |-> unwritable]

Suffixes == {Txt_mp3, Txt_MP3, Txt_txt, TxtEmpty}

Sizes == {MAX_FILE_SIZE, MAX_FILE_SIZE + 1}

AudioFiles == {AudioFile(e, x, n) : e \in BOOLEAN, x \in Suffixes, n \in Sizes}

Whispers ==
    {Unreadable, ApiError}
        \cup {Transcript(t, l) : t \in {None, Some(TxtSpace), Some(Txt_a_padded)},
                                 l \in {None, Some(Txt_en), Some(Txt_es)}}

Detections ==
    {ApiError, NoChoices, Content(None)}
        \cup {Content(Some(t)) : t \in {Txt_ES_padded, Txt_eng, Txt_e1}}

Summarizers == {ApiError, NoChoices, Content(None), Content(Some(Txt_a_padded))}

TopicAnswers == {ApiError, NoChoices, Content(Some(<<"[", "\"a\"", "]">>))}

CountAnswers ==
    {ApiError, Content(Some(<<"{">>)),
     Content(Some(TopicsText(ArrayText(<<EntryText(<<"\"a\"">>, <<"2">>)>>))))}

Services ==
    {Service(w, d, s, first, second, u) :
        w \in Whispers, d \in Detections, s \in Summarizers,
        first \in TopicAnswers, second \in CountAnswers,
        u \in {{}, {"summary", "analytics"}}}

InitProcess ==
    /\ products = <<>>
    /\ criteria = NoCriteria
    /\ result = [raised |-> FALSE, value |-> <<>>]
    /\ pc = "done"
    /\ response = NoResponse
    /\ inputs = <<>>
    /\ consumed = <<>>
    /\ searched = <<>>
    /\ loop = "off"
    /\ reported = 0
    /\ file \in AudioFiles
    /\ step = "validate"
    /\ remote \in Services
    /\ trace = <<>>
    /\ calls = <<>>
    /\ transcribed = None
    /\ summary = None
    /\ analytics = None
    /\ saved = None
    /\ failure = None

\* `is_valid, message = self.validate_audio_file(file_path)` and
\* `if not is_valid: raise ValueError(message)`
Validate ==
    /\ step = "validate"
    /\ LET checked == validate_audio_file(file)
       IN  /\ step' = IF checked.valid THEN "duration" ELSE "raised"
           /\ failure' = IF checked.valid THEN None
                         ELSE Some(Raised("ValueError", checked.message))
    /\ trace' = Append(trace, "validate")
    /\ UNCHANGED <<products, criteria, result, pc, others>>
    /\ UNCHANGED <<file, remote, calls, transcribed, summary, analytics, saved>>

\* `audio_duration = self.get_audio_duration(file_path)`
GetDuration ==
    /\ step = "duration"
    /\ step' = "transcribe"
    /\ trace' = Append(trace, "duration")
    /\ UNCHANGED <<products, criteria, result, pc, others>>
    /\ UNCHANGED <<file, remote, calls, transcribed, summary, analytics, saved, failure>>

\* `transcription, language = self.transcribe_audio(file_path)`
Transcribe ==
    /\ step = "transcribe"
    /\ LET returned == transcribe_audio(remote.whisper, remote.detection)
       IN  /\ calls' = calls \o returned.requests
           /\ transcribed' = IF returned.exc = "none"
                             THEN Some(<<returned.transcription, returned.language>>)
                             ELSE None
           /\ step' = IF returned.exc = "none" THEN "summarize" ELSE "raised"
           /\ failure' = IF returned.exc = "none" THEN None
                         ELSE Some(Raised(returned.exc, ""))
    /\ trace' = Append(trace, "transcribe")
    /\ UNCHANGED <<products, criteria, result, pc, others>>
    /\ UNCHANGED <<file, remote, summary, analytics, saved>>

\* `summary = self.generate_summary(transcription, language)`
Summarize ==
    /\ step = "summarize"
    /\ LET returned == generate_summary(remote.summarizer)
       IN  /\ calls' = calls \o returned.requests
           /\ summary' = IF returned.exc = "none" THEN Some(returned.summary) ELSE None
           /\ step' = IF returned.exc = "none" THEN "analyze" ELSE "raised"
           /\ failure' = IF returned.exc = "none" THEN None
                         ELSE Some(Raised(returned.exc, ""))
    /\ trace' = Append(trace, "summarize")
    /\ UNCHANGED <<products, criteria, result, pc, others>>
    /\ UNCHANGED <<file, remote, transcribed, analytics, saved>>

\* `output_files = self.save_results(...)` and `return output_files`
Save ==
    /\ step = "save"
    /\ saved' = Some(save_results(remote.unwritable))
    /\ step' = "done"
    /\ trace' = Append(trace, "save")
    /\ UNCHANGED <<products, criteria, result, pc, others>>
    /\ UNCHANGED <<file, remote, calls, transcribed, summary, analytics, failure>>

NextProcess == Validate \/ GetDuration \/ Transcribe \/ Summarize \/ Analyze \/ Save

SpecProcess == InitProcess /\ [][NextProcess]_vars

-----------------------------------------------------------------------------
(* What the claims speak of, stated without the stages of the function *)

Done == pc = "done"

Returned == result.value

\* the records of a sequence
Records(s) == {s[i] : i \in 1..Len(s)}

price_of(p) == IF "price" \in DOMAIN p THEN p.price ELSE 0

rating_of(p) == IF "rating" \in DOMAIN p THEN p.rating ELSE 0

name_of(p) == IF "name" \in DOMAIN p THEN p.name ELSE TxtEmpty

category_of(p) == IF "category" \in DOMAIN p THEN p.category ELSE TxtEmpty

in_stock_of(p) == "in_stock" \in DOMAIN p /\ p.in_stock

\* the object each text of ObjectTexts encodes
Denoted(t) ==
    CASE t = <<"{", "}">> -> EmptyDict
      [] t = <<"{", "\"min\"", ":", "1", "}">> -> [min |-> Some(1)]
      [] t = <<"{", "\"max\"", ":", "1", "}">> -> [max |-> Some(1)]
      [] t = <<"{", "\"min\"", ":", "0", "}">> -> [min |-> Some(0)]
      [] t = <<"{", "\"min\"", ":", "2", ",", "\"max\"", ":", "2", "}">>
             -> [min |-> Some(2), max |-> Some(2)]
      [] t = <<"{", "\"min\"", ":", "null", ",", "\"max\"", ":", "0", "}">>
             -> [min |-> None, max |-> Some(0)]
      [] t = <<"{", "\"max\"", ":", "2", ",", "\"max\"", ":", "1", "}">>
             -> [max |-> Some(1)]

\* the object a well-formed price_range stands for; none for an absent or
\* malformed one
RangeObject(c) ==
    IF c.price_range = None THEN EmptyDict
    ELSE IF c.price_range[1].type = "dict" THEN c.price_range[1].dict
    ELSE IF c.price_range[1].type = "str" /\ c.price_range[1].text \in ObjectTexts
         THEN Denoted(c.price_range[1].text)
    ELSE EmptyDict

SetsMin(c) == "min" \in DOMAIN RangeObject(c) /\ RangeObject(c)["min"] # None

SetsMax(c) == "max" \in DOMAIN RangeObject(c) /\ RangeObject(c)["max"] # None

\* the effective price bounds (None: no bound)
EffectiveMin(c) == IF SetsMin(c) THEN RangeObject(c)["min"] ELSE c.min_price

EffectiveMax(c) == IF SetsMax(c) THEN RangeObject(c)["max"] ELSE c.max_price

InPriceBounds(p, c) ==
    /\ EffectiveMin(c) # None => price_of(p) >= EffectiveMin(c)[1]
    /\ EffectiveMax(c) # None => price_of(p) <= EffectiveMax(c)[1]

InRatingBounds(p, c) ==
    /\ c.min_rating # None => rating_of(p) >= c.min_rating[1]
    /\ c.max_rating # None => rating_of(p) <= c.max_rating[1]

\* a category constraint is set by a non-empty category
InCategory(p, c) ==
    (c.category # None /\ c.category[1] # TxtEmpty)
        => lower(category_of(p)) = lower(c.category[1])

InStockState(p, c) ==
    c.in_stock_only # None => (in_stock_of(p) <=> c.in_stock_only[1])

\* sub occurs in text at some position
OccursIn(sub, text) ==
    \E i \in 1..(Len(text) + 1) :
        /\ i + Len(sub) - 1 <= Len(text)
        /\ SubSeq(text, i, i + Len(sub) - 1) = sub

\* a keyword constraint is set by a non-empty keyword list
HasKeyword(p, c) ==
    (c.keywords # None /\ c.keywords[1] # <<>>)
        => \E k \in Records(c.keywords[1]) : OccursIn(lower(k), lower(name_of(p)))

Satisfies(p, c) ==
    /\ InCategory(p, c)
    /\ InPriceBounds(p, c)
    /\ InRatingBounds(p, c)
    /\ InStockState(p, c)
    /\ HasKeyword(p, c)

\* the matching records, in input order
Matching == SelectSeq(products, LAMBDA p : Satisfies(p, criteria))

-----------------------------------------------------------------------------
(* C1: the constraints combine conjunctively.  Ignoring limit, the call     *)
(* raises nothing and the records returned are exactly the input records   *)
(* that satisfy every constraint that is set: category (a non-empty one),  *)
(* effective price bounds, rating bounds, stock state, keywords (a         *)
(* non-empty list).                                                        *)
C1_Conjunctive ==
    (Done /\ criteria.limit = None) =>
        /\ ~result.raised
        /\ Records(Returned) = {p \in Records(products) : Satisfies(p, criteria)}
        /\ Len(Returned) = Len(Matching)

\* the example: two Books, the first in stock, the second not;
\* category Books with in_stock_only true returns the first only
C1_Witness ==
    /\ Done
    /\ Len(products) = 2
    /\ category_of(products[1]) = TxtBooks /\ in_stock_of(products[1])
    /\ lower(category_of(products[2])) = lower(TxtBooks) /\ ~in_stock_of(products[2])
    /\ criteria = [NoCriteria EXCEPT !.category = Some(TxtBooks),
                                     !.in_stock_only = Some(TRUE)]
    /\ Returned = <<products[1]>>

(* C2: identity.  With every optional argument absent the call returns the *)
(* records of the input in the order of the input.                         *)
C2_Identity ==
    (Done /\ criteria = NoCriteria) => (~result.raised /\ Returned = products)

C2_Witness ==
    /\ Done
    /\ criteria = NoCriteria
    /\ Len(products) = 2
    /\ products[1] # products[2]
    /\ in_stock_of(products[1]) /\ ~in_stock_of(products[2])
    /\ Returned = products

(* C7: the stock filter is tri-state.  With in_stock_only true every       *)
(* returned record is in stock; with in_stock_only false no returned       *)
(* record is in stock; with in_stock_only None no record is removed for    *)
(* its stock state: every input record that satisfies the other            *)
(* constraints is returned, whatever its stock state.                      *)
C7_StockTriState ==
    (Done /\ criteria.limit = None) =>
        /\ criteria.in_stock_only = Some(TRUE)
               => \A p \in Records(Returned) : in_stock_of(p)
        /\ criteria.in_stock_only = Some(FALSE)
               => \A p \in Records(Returned) : ~in_stock_of(p)
        /\ criteria.in_stock_only = None
               => \A p \in Records(products) :
                      (/\ InCategory(p, criteria)
                       /\ InPriceBounds(p, criteria)
                       /\ InRatingBounds(p, criteria)
                       /\ HasKeyword(p, criteria)) => p \in Records(Returned)

\* in_stock_only false on an input with both stock states returns the
\* record that is out of stock
C7_Witness ==
    /\ Done
    /\ criteria.in_stock_only = Some(FALSE)
    /\ \E p \in Records(products) : in_stock_of(p)
    /\ \E p \in Records(products) : ~in_stock_of(p)
    /\ Returned # <<>>

-----------------------------------------------------------------------------
(* C3, as stated: whenever max_price = X is supplied every returned record *)
(* has price <= X, and whenever min_price = X is supplied every returned   *)
(* record has price >= X (a record without a price counting as 0).         *)
C3_SuppliedBoundsHold ==
    Done =>
        /\ criteria.max_price # None
               => \A p \in Records(Returned) : price_of(p) <= criteria.max_price[1]
        /\ criteria.min_price # None
               => \A p \in Records(Returned) : price_of(p) >= criteria.min_price[1]

(* C3, amended: whenever max_price = X is supplied and price_range sets no *)
(* max (it is absent, malformed, or has no non-null max), every returned   *)
(* record has price <= X; whenever min_price = X is supplied and           *)
(* price_range sets no min, every returned record has price >= X.  A       *)
(* record without a price counts as price 0.                               *)
C3_SuppliedBoundsHoldUnlessOverridden ==
    Done =>
        /\ (criteria.max_price # None /\ ~SetsMax(criteria))
               => \A p \in Records(Returned) : price_of(p) <= criteria.max_price[1]
        /\ (criteria.min_price # None /\ ~SetsMin(criteria))
               => \A p \in Records(Returned) : price_of(p) >= criteria.min_price[1]

\* max_price = 1 with no price_range: the record priced 2 is excluded, the
\* record priced 1 is returned
C3_Witness ==
    /\ Done
    /\ criteria.price_range = None
    /\ criteria.max_price = Some(1)
    /\ \E p \in Records(products) : price_of(p) = 2 /\ p \notin Records(Returned)
    /\ \E p \in Records(products) : price_of(p) = 1 /\ p \in Records(Returned)

(* C4: override.  When price_range is an object with a non-null min, the   *)
(* floor applied is price_range.min and min_price is disregarded, be it    *)
(* lower or higher: a record is returned exactly when its price is at      *)
(* least price_range.min and within the effective upper bound.  The same   *)
(* holds for price_range.max against max_price.                            *)
C4_Override ==
    (Done /\ criteria.price_range # None /\ criteria.price_range[1].type = "dict") =>
        LET range == criteria.price_range[1].dict
        IN  /\ ("min" \in DOMAIN range /\ range["min"] # None) =>
                  \A p \in Records(products) :
                      p \in Records(Returned) <=>
                          /\ price_of(p) >= range["min"][1]
                          /\ EffectiveMax(criteria) # None
                                 => price_of(p) <= EffectiveMax(criteria)[1]
            /\ ("max" \in DOMAIN range /\ range["max"] # None) =>
                  \A p \in Records(products) :
                      p \in Records(Returned) <=>
                          /\ price_of(p) <= range["max"][1]
                          /\ EffectiveMin(criteria) # None
                                 => price_of(p) >= EffectiveMin(criteria)[1]

\* price_range = {min: 1, max: 2} with min_price = 0: the record priced 0 is
\* excluded, the record priced 1 is returned
C4_Witness ==
    /\ Done
    /\ criteria.price_range = Some(PrDict([min |-> Some(1), max |-> Some(2)]))
    /\ criteria.min_price = Some(0)
    /\ \E p \in Records(products) : price_of(p) = 0 /\ p \notin Records(Returned)
    /\ \E p \in Records(products) : price_of(p) = 1 /\ p \in Records(Returned)

(* C5: price_range overrides only the bounds it sets.  When a well-formed  *)
(* price_range (an object, or text encoding one) has a non-null min and an *)
(* absent or null max, a supplied max_price still bounds the result: the   *)
(* records returned are those priced from price_range.min to max_price.    *)
(* Likewise with a max and an absent or null min, for min_price.           *)
C5_OverridesOnlyWhatItSets ==
    Done =>
        /\ (SetsMin(criteria) /\ ~SetsMax(criteria) /\ criteria.max_price # None) =>
              \A p \in Records(products) :
                  p \in Records(Returned) <=>
                      /\ price_of(p) >= RangeObject(criteria)["min"][1]
                      /\ price_of(p) <= criteria.max_price[1]
        /\ (SetsMax(criteria) /\ ~SetsMin(criteria) /\ criteria.min_price # None) =>
              \A p \in Records(products) :
                  p \in Records(Returned) <=>
                      /\ price_of(p) <= RangeObject(criteria)["max"][1]
                      /\ price_of(p) >= criteria.min_price[1]

\* price_range = {min: 1, max: null} with max_price = 1: the record priced 2
\* is excluded by max_price, the record priced 1 is returned
C5_Witness ==
    /\ Done
    /\ criteria.price_range = Some(PrDict([min |-> Some(1), max |-> None]))
    /\ criteria.max_price = Some(1)
    /\ \E p \in Records(products) : price_of(p) = 2 /\ p \notin Records(Returned)
    /\ \E p \in Records(products) : price_of(p) = 1 /\ p \in Records(Returned)

(* C6: a malformed price_range (text that is not valid JSON, JSON text     *)
(* that decodes to something other than an object, a value that is        *)
(* neither an object nor text) is treated as absent: the call raises       *)
(* nothing and returns what the same call without price_range returns,     *)
(* namely the records within the supplied min_price and max_price.         *)
C6_MalformedRangeIgnored ==
    (Done /\ criteria.price_range # None /\ criteria.price_range[1] \in MalformedRanges) =>
        /\ ~result.raised
        /\ result = filter_products_by_criteria(products,
                        criteria.category, criteria.max_price, criteria.min_price,
                        None, criteria.min_rating, criteria.max_rating,
                        criteria.in_stock_only, criteria.keywords, criteria.sort_by,
                        criteria.limit)
        /\ Returned = SelectSeq(products, LAMBDA p :
               /\ criteria.min_price # None => price_of(p) >= criteria.min_price[1]
               /\ criteria.max_price # None => price_of(p) <= criteria.max_price[1])

\* JSON text decoding to a list as price_range, with min_price = 1 applied
C6_Witness ==
    /\ Done
    /\ criteria.price_range = Some(PrStr(<<"[", "]">>))
    /\ criteria.min_price = Some(1)
    /\ ~result.raised
    /\ \E p \in Records(products) : price_of(p) = 0 /\ p \notin Records(Returned)
    /\ \E p \in Records(products) : price_of(p) = 2 /\ p \in Records(Returned)

-----------------------------------------------------------------------------
(* C8: the keyword filter is OR-combined and case-insensitive.  With a     *)
(* non-empty keyword list a record is returned exactly when at least one   *)
(* keyword, lower-cased, occurs in its lower-cased name; with an empty or  *)
(* absent keyword list nothing is removed.                                 *)
C8_KeywordsAnyCaseInsensitive ==
    Done =>
        /\ (criteria.keywords # None /\ criteria.keywords[1] # <<>>) =>
              \A p \in Records(products) :
                  p \in Records(Returned) <=>
                      \E k \in Records(criteria.keywords[1]) :
                          OccursIn(lower(k), lower(name_of(p)))
        /\ (criteria.keywords = None \/ criteria.keywords[1] = <<>>) =>
              Returned = products

\* keywords ['Ab', 'C'] keep both the record named 'aB' and the one named 'C',
\* each through another keyword
C8_Witness ==
    /\ Done
    /\ criteria.keywords = Some(<<TxtAb, TxtC>>)
    /\ \E p \in Records(products) : name_of(p) = TxtaB /\ p \in Records(Returned)
    /\ \E p \in Records(products) : name_of(p) = TxtC /\ p \in Records(Returned)

-----------------------------------------------------------------------------
(* Order of a sorted result, stated by position *)

key_of(field, p) ==
    CASE field = "price"  -> price_of(p)
      [] field = "rating" -> rating_of(p)
      [] field = "name"   -> lower(name_of(p))

\* record a goes before record b by its key alone
KeyBefore(field, descending, a, b) ==
    LET ka == key_of(field, a)
        kb == key_of(field, b)
        less(x, y) == IF field = "name" THEN str_lt(x, y) ELSE x < y
    IN  IF descending THEN less(kb, ka) ELSE less(ka, kb)

\* the place of M[i] in the stable order of M: after the records whose key
\* goes before its key, and after the earlier records of equal key
Place(M, i, field, descending) ==
    1 + Cardinality({j \in 1..Len(M) :
            \/ KeyBefore(field, descending, M[j], M[i])
            \/ (key_of(field, M[j]) = key_of(field, M[i]) /\ j < i)})

SortField(mode) ==
    CASE mode \in {"price_asc", "price_desc"}   -> "price"
      [] mode \in {"rating_asc", "rating_desc"} -> "rating"
      [] mode \in {"name_asc", "name_desc"}     -> "name"

SortDescending(mode) == mode \in {"price_desc", "rating_desc", "name_desc"}

(* C9: with sort_by = 'price_asc' and limit = k > 0 the result is the      *)
(* min(k, m) cheapest of the m matching records in non-decreasing price    *)
(* order, records of equal price in their input order, also at the cut.    *)
C9_CheapestFirstK ==
    (Done /\ criteria.sort_by = Some("price_asc")
          /\ criteria.limit # None /\ criteria.limit[1] > 0) =>
        LET k == criteria.limit[1]
            m == Len(Matching)
            cheaper(i) == {j \in 1..m :
                              \/ price_of(Matching[j]) < price_of(Matching[i])
                              \/ (price_of(Matching[j]) = price_of(Matching[i]) /\ j < i)}
        IN  /\ ~result.raised
            /\ Len(Returned) = IF k < m THEN k ELSE m
            /\ \A i \in 1..m :
                   Cardinality(cheaper(i)) < k
                       => Returned[Cardinality(cheaper(i)) + 1] = Matching[i]
            /\ \A i \in 1..(Len(Returned) - 1) :
                   price_of(Returned[i]) <= price_of(Returned[i + 1])

\* three matching records, the first two of equal price above the third's,
\* limit 2: the third, then the first of the two
C9_Witness ==
    /\ Done
    /\ criteria.sort_by = Some("price_asc")
    /\ criteria.limit = Some(2)
    /\ Len(products) = 3
    /\ Len(Matching) = 3
    /\ products[1] # products[2]
    /\ price_of(products[1]) = price_of(products[2])
    /\ price_of(products[3]) < price_of(products[1])
    /\ Returned = <<products[3], products[1]>>

(* C10: sorting is stable in all six modes.  The result holds the matching *)
(* records ordered by the designated key (the name lower-cased) in the     *)
(* designated direction, and records of equal key, also in the descending  *)
(* modes and for names that differ only in letter case, keep their input   *)
(* order: each matching record stands at its place in the stable order.    *)
C10_StableInAllModes ==
    (Done /\ criteria.limit = None /\ criteria.sort_by # None
          /\ criteria.sort_by[1] \in SortModes) =>
        LET field == SortField(criteria.sort_by[1])
            desc  == SortDescending(criteria.sort_by[1])
        IN  /\ ~result.raised
            /\ Len(Returned) = Len(Matching)
            /\ \A i \in 1..Len(Matching) :
                   Returned[Place(Matching, i, field, desc)] = Matching[i]
            /\ \A i \in 1..(Len(Returned) - 1) :
                   ~KeyBefore(field, desc, Returned[i + 1], Returned[i])

\* name_desc on names 'a', 'A', 'b': 'b' first, then 'a' before 'A' as in the input
C10_Witness ==
    /\ Done
    /\ criteria.sort_by = Some("name_desc")
    /\ criteria.limit = None
    /\ Len(products) = 3
    /\ name_of(products[1]) = Txta
    /\ name_of(products[2]) = TxtA
    /\ name_of(products[3]) = Txtb
    /\ Returned = <<products[3], products[1], products[2]>>

-----------------------------------------------------------------------------
(* The filtered and sorted records, stated by position *)

\* M in its stable order: the record whose place is k stands at k
StableOrder(M, field, descending) ==
    [k \in 1..Len(M) |->
        M[CHOOSE i \in 1..Len(M) : Place(M, i, field, descending) = k]]

\* the matching records in the order sort_by asks for (input order when
\* sort_by is no sort mode)
FilteredAndSorted ==
    IF criteria.sort_by # None /\ criteria.sort_by[1] \in SortModes
    THEN StableOrder(Matching, SortField(criteria.sort_by[1]),
                     SortDescending(criteria.sort_by[1]))
    ELSE Matching

FirstOf(s, n) == SubSeq(s, 1, IF n < Len(s) THEN n ELSE Len(s))

(* C11: a limit that is absent, 0 or negative never truncates: the result  *)
(* holds every filtered and sorted record.                                 *)
C11_NonPositiveLimitKeepsAll ==
    (Done /\ (criteria.limit = None \/ criteria.limit[1] <= 0)) =>
        /\ ~result.raised
        /\ Returned = FilteredAndSorted

\* limit 0 and limit -1 on three records that all match, sorted by price
C11_Witness ==
    /\ Done
    /\ criteria.limit \in {Some(0), Some(-1)}
    /\ criteria.sort_by = Some("price_desc")
    /\ Len(Matching) = 3
    /\ Len(Returned) = 3
    /\ Returned # products

(* C12: the limit is applied after filtering and sorting.  For limit       *)
(* n > 0 the result is the first min(n, m) records of the result the same  *)
(* criteria give with no limit, m being that result's length; that is, of  *)
(* the filtered and sorted records.                                        *)
C12_LimitAfterFilterAndSort ==
    (Done /\ criteria.limit # None /\ criteria.limit[1] > 0) =>
        LET unlimited == filter_products_by_criteria(products,
                             criteria.category, criteria.max_price, criteria.min_price,
                             criteria.price_range, criteria.min_rating,
                             criteria.max_rating, criteria.in_stock_only,
                             criteria.keywords, criteria.sort_by, None)
        IN  /\ ~result.raised
            /\ Returned = FirstOf(unlimited.value, criteria.limit[1])
            /\ Returned = FirstOf(FilteredAndSorted, criteria.limit[1])

\* limit 1 with a filter that removes the first record and a sort that
\* moves the last record to the front
C12_Witness ==
    /\ Done
    /\ criteria.limit = Some(1)
    /\ criteria.min_rating = Some(1)
    /\ criteria.sort_by = Some("name_desc")
    /\ Len(products) = 3
    /\ rating_of(products[1]) < 1
    /\ Len(Matching) = 2
    /\ Returned = <<products[3]>>

\* a is b with some positions left out, the others in b's order
IsSubsequence(a, b) ==
    \E f \in [1..Len(a) -> 1..Len(b)] :
        /\ \A i \in 1..Len(a) : a[i] = b[f[i]]
        /\ \A i, j \in 1..Len(a) : i < j => f[i] < f[j]

(* C13: when sort_by is absent the result keeps the input order for every  *)
(* combination of filters: the returned records form a subsequence of the  *)
(* input sequence, namely the matching records in input order.             *)
C13_InputOrderWithoutSort ==
    (Done /\ criteria.sort_by = None) =>
        /\ ~result.raised
        /\ IsSubsequence(Returned, products)
        /\ Returned = Matching

\* two records pass a category filter and come back in input order,
\* which is not their order by name
C13_Witness ==
    /\ Done
    /\ criteria.sort_by = None
    /\ criteria.category # None /\ truthy_text(criteria.category)
    /\ Len(products) = 2
    /\ str_lt(lower(name_of(products[2])), lower(name_of(products[1])))
    /\ Returned = products

(* C14: the engine never mutates its input: after any call, including a  *)
(* call with sort_by set and no filter active, the caller's product        *)
(* sequence holds the same records in the same order as before the call.   *)
C14_InputNotMutated == [][products' = products]_vars

\* a call with a sort mode and no filter has returned the records in a new
\* order, and the caller's list is still in the old one
C14_Witness ==
    /\ Done
    /\ criteria.sort_by # None /\ criteria.sort_by[1] \in SortModes
    /\ criteria.min_rating = None
    /\ Len(products) = 3
    /\ Len(Returned) = 3
    /\ Returned # products

-----------------------------------------------------------------------------
(* The filter stages run in another order *)

FilterStages == {"category", "price", "rating", "stock", "keyword"}

\* the order of the code (functions.py:76-133)
CodeOrder == <<"category", "price", "rating", "stock", "keyword">>

\* every order of the five stages
StageOrders ==
    {o \in [1..Cardinality(FilterStages) -> FilterStages] :
        \A i, j \in DOMAIN o : o[i] = o[j] => i = j}

run_stage(stage, ps, c, bounds) ==
    CASE stage = "category" -> category_filter(ps, c.category)
      [] stage = "price"    -> price_filter(ps, bounds.min_price, bounds.max_price)
      [] stage = "rating"   -> rating_filter(ps, c.min_rating, c.max_rating)
      [] stage = "stock"    -> stock_filter(ps, c.in_stock_only)
      [] stage = "keyword"  -> keyword_filter(ps, c.keywords)

RECURSIVE run_stages(_, _, _, _)
run_stages(order, ps, c, bounds) ==
    IF order = <<>>
    THEN ps
    ELSE run_stages(Tail(order), run_stage(Head(order), ps, c, bounds), c, bounds)

(* C15: the filter stages commute: the category, price, rating, stock and  *)
(* keyword filters applied in any order to the same product sequence leave *)
(* the same records, and with the sort and the limit run afterwards the    *)
(* final result is the same, the one the call returns.                     *)
C15_FilterStagesCommute ==
    (Done /\ ~result.raised) =>
        LET bounds  == resolve_price_range(criteria.price_range,
                           criteria.min_price, criteria.max_price)
            in_code == run_stages(CodeOrder, products, criteria, bounds)
        IN  /\ apply_limit(apply_sort(in_code, criteria.sort_by),
                           criteria.limit) = Returned
            /\ \A o \in StageOrders :
                   run_stages(o, products, criteria, bounds) = in_code

\* all five stages are active; the category filter alone would remove the
\* second record only, the stock filter alone the first record only
C15_Witness ==
    /\ Done
    /\ truthy_text(criteria.category)
    /\ criteria.max_price # None
    /\ criteria.min_rating # None
    /\ criteria.in_stock_only # None
    /\ truthy_list(criteria.keywords)
    /\ Len(products) = 2
    /\ category_filter(products, criteria.category) = <<products[1]>>
    /\ stock_filter(products, criteria.in_stock_only) = <<products[2]>>
    /\ Returned = <<>>

\* two texts are the same once both are lower-cased
SameIgnoringCase(a, b) ==
    /\ Len(a) = Len(b)
    /\ \A i \in 1..Len(a) : lower_char(a[i]) = lower_char(b[i])

\* the records whose category is the requested one, in input order
OfCategory(requested) ==
    SelectSeq(products, LAMBDA p : SameIgnoringCase(category_of(p), requested))

(* C16, as stated: the category filter is an exact, case-insensitive       *)
(* match: with category set (any supplied text), a record is kept if and   *)
(* only if its category equals the requested value after lower-casing      *)
(* both; with category absent no record is removed.                        *)
C16_ExactMatchWhenSupplied ==
    Done =>
        /\ criteria.category # None => Returned = OfCategory(criteria.category[1])
        /\ criteria.category = None => Returned = products

(* C16, amended: with a non-empty category a record is kept if and only if *)
(* its category (the empty text if it has none) equals the requested value *)
(* after lower-casing both, so a category that contains or is contained in *)
(* the requested value does not match; with category absent or the empty   *)
(* text no record is removed.                                              *)
C16_ExactMatchWhenNonEmpty ==
    Done =>
        /\ ~result.raised
        /\ (criteria.category # None /\ criteria.category[1] # TxtEmpty)
              => Returned = OfCategory(criteria.category[1])
        /\ (criteria.category = None \/ criteria.category = Some(TxtEmpty))
              => Returned = products

\* "BOOKS" requested: the record of category "Books" is kept, the record
\* of category "Book" is removed
C16_Witness ==
    /\ Done
    /\ criteria.category = Some(TxtBOOKS)
    /\ Len(products) = 2
    /\ category_of(products[1]) = TxtBooks
    /\ category_of(products[2]) = TxtBook
    /\ Returned = <<products[1]>>

-----------------------------------------------------------------------------
\* the record's price is one of the effective price bounds
AtPriceBound(p, c) ==
    \/ EffectiveMin(c) # None /\ price_of(p) = EffectiveMin(c)[1]
    \/ EffectiveMax(c) # None /\ price_of(p) = EffectiveMax(c)[1]

\* the record's rating is one of the rating bounds
AtRatingBound(p, c) ==
    \/ c.min_rating # None /\ rating_of(p) = c.min_rating[1]
    \/ c.max_rating # None /\ rating_of(p) = c.max_rating[1]

(* C17: the numeric bounds are inclusive.  A record whose price equals the *)
(* effective min_price or max_price, or whose rating equals min_rating or  *)
(* max_rating, is kept unless another bound excludes it; and when min and  *)
(* max are both set to X, the records kept are exactly those whose value   *)
(* is X (and that the bounds on the other field allow).                    *)
C17_BoundsInclusive ==
    Done =>
        /\ ~result.raised
        /\ \A p \in Records(products) :
              ( /\ AtPriceBound(p, criteria) \/ AtRatingBound(p, criteria)
                /\ InPriceBounds(p, criteria)
                /\ InRatingBounds(p, criteria) )
                  => p \in Records(Returned)
        /\ ( /\ EffectiveMin(criteria) # None
             /\ EffectiveMin(criteria) = EffectiveMax(criteria) )
              => Records(Returned) =
                    {p \in Records(products) :
                        /\ price_of(p) = EffectiveMin(criteria)[1]
                        /\ InRatingBounds(p, criteria)}
        /\ ( /\ criteria.min_rating # None
             /\ criteria.min_rating = criteria.max_rating )
              => Records(Returned) =
                    {p \in Records(products) :
                        /\ rating_of(p) = criteria.min_rating[1]
                        /\ InPriceBounds(p, criteria)}

\* min_price = max_price = 1 and min_rating = max_rating = 1: the record
\* with price 1 and rating 1 is kept, the record with price 2 is not
C17_Witness ==
    /\ Done
    /\ criteria.price_range = None
    /\ criteria.min_price = Some(1) /\ criteria.max_price = Some(1)
    /\ criteria.min_rating = Some(1) /\ criteria.max_rating = Some(1)
    /\ Len(products) = 2
    /\ price_of(products[1]) = 2
    /\ "price" \in DOMAIN products[2] /\ "rating" \in DOMAIN products[2]
    /\ Returned = <<products[2]>>

\* the record with 0 written in for a missing price and a missing rating
WithZeros(p) ==
    [k \in DOMAIN p \cup {"price", "rating"} |-> IF k \in DOMAIN p THEN p[k] ELSE 0]

ZerosWritten(s) == [i \in DOMAIN s |-> WithZeros(s[i])]

(* C18: a record that lacks a price (or rating) field is neither excluded  *)
(* outright nor a cause of error: it is compared and sorted as if its      *)
(* price (rating) were 0.  It is kept exactly when 0 lies within the       *)
(* active price (rating) bounds and its other field passes, and the call   *)
(* returns the records it would return, in the same places, had the        *)
(* missing fields been written as 0.                                       *)
C18_MissingNumberIsZero ==
    Done =>
        /\ ~result.raised
        /\ \A p \in Records(products) :
              "price" \notin DOMAIN p =>
                 ( p \in Records(Returned) <=>
                     /\ EffectiveMin(criteria) # None => 0 >= EffectiveMin(criteria)[1]
                     /\ EffectiveMax(criteria) # None => 0 <= EffectiveMax(criteria)[1]
                     /\ InRatingBounds(p, criteria) )
        /\ \A p \in Records(products) :
              "rating" \notin DOMAIN p =>
                 ( p \in Records(Returned) <=>
                     /\ criteria.min_rating # None => 0 >= criteria.min_rating[1]
                     /\ criteria.max_rating # None => 0 <= criteria.max_rating[1]
                     /\ InPriceBounds(p, criteria) )
        /\ ZerosWritten(Returned) =
              filter_products_by_criteria(ZerosWritten(products),
                  criteria.category, criteria.max_price, criteria.min_price,
                  criteria.price_range, criteria.min_rating, criteria.max_rating,
                  criteria.in_stock_only, criteria.keywords, criteria.sort_by,
                  criteria.limit).value

\* a record without a price passes the bounds 0 <= price <= 1 and is
\* sorted before the record priced 1 that stood before it
C18_Witness ==
    /\ Done
    /\ criteria.price_range = None
    /\ criteria.min_price = Some(0) /\ criteria.max_price = Some(1)
    /\ criteria.sort_by = Some("price_asc")
    /\ Len(products) = 2
    /\ price_of(products[1]) = 1
    /\ "price" \notin DOMAIN products[2]
    /\ Returned = <<products[2], products[1]>>

-----------------------------------------------------------------------------
(* C19: for every product sequence and criteria value, any combination of  *)
(* set and absent fields, the call completes and returns a sequence; it    *)
(* never ends in an error.  In every state that awaits the call its value  *)
(* is defined and is not an exception; once made, no exception has left it *)
(* and what it returned is a sequence of input records.  The price_range   *)
(* values of every kind are among the inputs: it is the only criterion     *)
(* whose handling can raise inside the function.                           *)
C19_NeverRaises ==
    /\ pc = "ready" =>
          ~filter_products_by_criteria(products,
               criteria.category, criteria.max_price, criteria.min_price,
               criteria.price_range, criteria.min_rating, criteria.max_rating,
               criteria.in_stock_only, criteria.keywords, criteria.sort_by,
               criteria.limit).raised
    /\ Done =>
        /\ ~result.raised
        /\ DOMAIN Returned = 1..Len(Returned)
        /\ Records(Returned) \subseteq Records(products)

\* a call with both price bounds and a price_range given as text, on a
\* record without a price, has returned
C19_Witness ==
    /\ Done
    /\ criteria.min_price # None
    /\ criteria.max_price # None
    /\ criteria.price_range # None
    /\ criteria.price_range[1].type = "str"
    /\ \E i \in 1..Len(products) : "price" \notin DOMAIN products[i]
    /\ ~result.raised
    /\ Len(Returned) = 1

(* C20: a price_range supplied as JSON text that encodes an object yields, *)
(* for every product sequence and every other criteria, the same result as *)
(* supplying that object directly.                                         *)
C20_TextSameAsObject ==
    ( /\ Done
      /\ criteria.price_range # None
      /\ criteria.price_range[1].type = "str"
      /\ criteria.price_range[1].text \in ObjectTexts ) =>
        result = filter_products_by_criteria(products,
                     criteria.category, criteria.max_price, criteria.min_price,
                     Some(PrDict(Denoted(criteria.price_range[1].text))),
                     criteria.min_rating, criteria.max_rating,
                     criteria.in_stock_only, criteria.keywords, criteria.sort_by,
                     criteria.limit)

\* the text {"min": null, "max": 0} with max_price = 2 supplied: the record
\* priced 1 is removed as the object's max of 0 requires
C20_Witness ==
    /\ Done
    /\ criteria.price_range = Some(PrStr(<<"{", "\"min\"", ":", "null", ",", "\"max\"", ":", "0", "}">>))
    /\ criteria.max_price = Some(2)
    /\ Len(products) = 2
    /\ price_of(products[1]) = 1
    /\ price_of(products[2]) = 0
    /\ Returned = <<products[2]>>

-----------------------------------------------------------------------------
(* C21: idempotence.  For every product sequence and criteria, the call    *)
(* made with the same criteria on the result of the call returns that same *)
(* result: the same records in the same order.                             *)
C21_Idempotent ==
    (Done /\ ~result.raised) =>
        filter_products_by_criteria(Returned,
            criteria.category, criteria.max_price, criteria.min_price,
            criteria.price_range, criteria.min_rating, criteria.max_rating,
            criteria.in_stock_only, criteria.keywords, criteria.sort_by,
            criteria.limit) = [raised |-> FALSE, value |-> Returned]

\* a filter has removed a record, a descending sort has moved the last
\* record to the front, and the limit has cut the other one off
C21_Witness ==
    /\ Done
    /\ criteria.min_rating # None
    /\ criteria.sort_by = Some("price_desc")
    /\ criteria.limit = Some(1)
    /\ Len(products) = 3
    /\ Len(Matching) = 2
    /\ Returned = <<products[3]>>

-----------------------------------------------------------------------------
\* the price_range object gives the key the value 0
RangeGivesZero(c, key) ==
    key \in DOMAIN RangeObject(c) /\ RangeObject(c)[key] = Some(0)

\* the records of the input that the predicate holds of
InputWhere(Keep(_)) == {p \in Records(products) : Keep(p)}

(* C22: zero-valued numeric bounds count as set, not as absent.  With an   *)
(* upper price (rating) bound of 0 in force, the records kept are those    *)
(* whose price (rating) is 0 or missing and that the other bounds allow;   *)
(* and a price_range.min or price_range.max of 0 replaces the supplied     *)
(* min_price or max_price: 0 is then the bound the records are held to.    *)
C22_ZeroBoundsAreSet ==
    Done =>
        /\ ~result.raised
        /\ (criteria.max_price = Some(0) /\ ~SetsMax(criteria)) =>
              Records(Returned) = InputWhere(LAMBDA p :
                  /\ price_of(p) = 0
                  /\ EffectiveMin(criteria) # None => price_of(p) >= EffectiveMin(criteria)[1]
                  /\ InRatingBounds(p, criteria))
        /\ criteria.max_rating = Some(0) =>
              Records(Returned) = InputWhere(LAMBDA p :
                  /\ rating_of(p) = 0
                  /\ criteria.min_rating # None => rating_of(p) >= criteria.min_rating[1]
                  /\ InPriceBounds(p, criteria))
        /\ RangeGivesZero(criteria, "max") =>
              Records(Returned) = InputWhere(LAMBDA p :
                  /\ price_of(p) = 0
                  /\ EffectiveMin(criteria) # None => price_of(p) >= EffectiveMin(criteria)[1]
                  /\ InRatingBounds(p, criteria))
        /\ RangeGivesZero(criteria, "min") =>
              Records(Returned) = InputWhere(LAMBDA p :
                  /\ price_of(p) >= 0
                  /\ EffectiveMax(criteria) # None => price_of(p) <= EffectiveMax(criteria)[1]
                  /\ InRatingBounds(p, criteria))

\* price_range = {max: 0} with max_price = 1 supplied: the record priced 1
\* is removed and the record without a price is kept
C22_Witness ==
    /\ Done
    /\ criteria.price_range = Some(PrDict([max |-> Some(0)]))
    /\ criteria.max_price = Some(1)
    /\ Len(products) = 2
    /\ price_of(products[1]) = 1
    /\ "price" \notin DOMAIN products[2]
    /\ Returned = <<products[2]>>

-----------------------------------------------------------------------------
\* the record passes every constraint but the one on stock
PassesAllButStock(p, c) ==
    /\ InCategory(p, c)
    /\ InPriceBounds(p, c)
    /\ InRatingBounds(p, c)
    /\ HasKeyword(p, c)

(* C23: a record that lacks the in_stock field is treated as out of stock. *)
(* Among the records that pass the other filters, it is returned when      *)
(* in_stock_only is false, removed when in_stock_only is true, and kept    *)
(* when in_stock_only is absent; a record the other filters remove is not  *)
(* returned in any case.                                                   *)
C23_MissingStockIsOutOfStock ==
    Done =>
        \A p \in Records(products) :
            "in_stock" \notin DOMAIN p =>
                /\ criteria.in_stock_only = Some(TRUE) => p \notin Records(Returned)
                /\ criteria.in_stock_only = Some(FALSE) =>
                      (p \in Records(Returned) <=> PassesAllButStock(p, criteria))
                /\ criteria.in_stock_only = None =>
                      (p \in Records(Returned) <=> PassesAllButStock(p, criteria))

\* in_stock_only = false: the record in stock is removed and the record
\* without the field is returned
C23_Witness ==
    /\ Done
    /\ criteria.in_stock_only = Some(FALSE)
    /\ Len(products) = 2
    /\ "in_stock" \in DOMAIN products[1] /\ products[1].in_stock
    /\ "in_stock" \notin DOMAIN products[2]
    /\ Returned = <<products[2]>>

-----------------------------------------------------------------------------
(* C24: a sort_by value that is not one of the six enumerated modes raises *)
(* no error and leaves the filtered records in input order, exactly as if  *)
(* sort_by were absent: the result is that of the call without sort_by,    *)
(* the matching records in input order, cut by a positive limit.           *)
C24_UnknownSortIsNoSort ==
    (Done /\ criteria.sort_by # None /\ criteria.sort_by[1] \notin SortModes) =>
        /\ ~result.raised
        /\ result = filter_products_by_criteria(products,
                        criteria.category, criteria.max_price, criteria.min_price,
                        criteria.price_range, criteria.min_rating, criteria.max_rating,
                        criteria.in_stock_only, criteria.keywords, None,
                        criteria.limit)
        /\ Returned = IF criteria.limit # None /\ criteria.limit[1] > 0
                      THEN FirstOf(Matching, criteria.limit[1])
                      ELSE Matching

\* sort_by = "price", which is no mode: three records that are not in
\* order of price come back as they were
C24_Witness ==
    /\ Done
    /\ criteria.sort_by = Some("price")
    /\ Len(products) = 3
    /\ price_of(products[1]) > price_of(products[2])
    /\ Returned = products

-----------------------------------------------------------------------------
(* C25: a keyword list that contains the empty string removes no record:   *)
(* the empty string is a substring of every name, a missing name included, *)
(* so every record that passed the earlier filters is kept whatever the    *)
(* other keywords are, and the result is that of the call without          *)
(* keywords.                                                               *)
C25_EmptyKeywordKeepsAll ==
    ( /\ Done
      /\ criteria.keywords # None
      /\ TxtEmpty \in Records(criteria.keywords[1]) ) =>
        /\ ~result.raised
        /\ Returned = SelectSeq(products, LAMBDA p : InStockState(p, criteria))
        /\ result = filter_products_by_criteria(products,
                        criteria.category, criteria.max_price, criteria.min_price,
                        criteria.price_range, criteria.min_rating, criteria.max_rating,
                        criteria.in_stock_only, None, criteria.sort_by,
                        criteria.limit)

\* keywords ['C', '']: the record named 'Ab', which has no 'c', and the
\* record without a name are both kept
C25_Witness ==
    /\ Done
    /\ criteria.keywords = Some(<<TxtC, TxtEmpty>>)
    /\ criteria.in_stock_only = None
    /\ Len(products) = 2
    /\ name_of(products[1]) = TxtAb
    /\ "name" \notin DOMAIN products[2]
    /\ Returned = products

-----------------------------------------------------------------------------
\* the mapping each text of CriteriaTexts encodes
DenotedCriteria(t) ==
    CASE t = <<"{", "}">> -> EmptyDict
      [] t = <<"{", "\"max_price\"", ":", "1", "}">> -> [max_price |-> Some(1)]
      [] t = <<"{", "\"max_price\"", ":", "0", "}">> -> [max_price |-> Some(0)]
      [] t = <<"{", "\"min_rating\"", ":", "1", "}">> -> [min_rating |-> Some(1)]
      [] t = <<"{", "\"limit\"", ":", "1", "}">> -> [limit |-> Some(1)]
      [] t = <<"{", "\"max_price\"", ":", "1", ",", "\"min_rating\"", ":", "1", "}">>
             -> [max_price |-> Some(1), min_rating |-> Some(1)]
      [] t = <<"{", "\"max_price\"", ":", "null", ",", "\"limit\"", ":", "2", "}">>
             -> [max_price |-> None, limit |-> Some(2)]
      [] t = <<"{", "\"limit\"", ":", "2", ",", "\"limit\"", ":", "1", "}">>
             -> [limit |-> Some(1)]
      [] t = <<"{", "\"max\"", ":", "1", "}">> -> [max |-> Some(1)]

\* the value the mapping gives the key; None when it gives none
Given(d, key) == IF key \in DOMAIN d THEN d[key] ELSE None

\* the response is a call of filter_products whose arguments encode a
\* criteria mapping
CallsFilterProducts ==
    /\ response.kind = "function_call"
    /\ response.name = "filter_products"
    /\ response.arguments \in CriteriaTexts

(* C26: search_products never raises.  When the API call fails, when the   *)
(* response carries no function call or one not named filter_products, or  *)
(* when the arguments cannot be decoded into a criteria mapping, it        *)
(* returns the pair (empty product list, empty criteria); otherwise it     *)
(* returns the products filtered by the decoded criteria, together with    *)
(* the decoded criteria.                                                   *)
C26_SearchNeverRaises ==
    Done =>
        /\ ~result.raised
        /\ ~CallsFilterProducts => result.value = <<<<>>, EmptyDict>>
        /\ CallsFilterProducts =>
              LET decoded == DenotedCriteria(response.arguments)
              IN  result.value =
                    << filter_products_by_criteria(products,
                           None, Given(decoded, "max_price"), None, None,
                           Given(decoded, "min_rating"), None, None, None, None,
                           Given(decoded, "limit")).value,
                       decoded >>

\* the arguments {"max_price": 1, "min_rating": 1} remove one of two
\* records, and the pair returned holds the other and the criteria
C26_Witness ==
    /\ Done
    /\ response = FunctionCall("filter_products",
           <<"{", "\"max_price\"", ":", "1", ",", "\"min_rating\"", ":", "1", "}">>)
    /\ Len(products) = 2
    /\ result.value = << <<products[2]>>, [max_price |-> Some(1), min_rating |-> Some(1)] >>

-----------------------------------------------------------------------------
\* the query a line of QueryLines stands for
Trimmed(t) == IF t = TxtqaPadded THEN Txtqa ELSE t

IsQuery(arrival) == arrival.kind = "line" /\ arrival.text \in QueryLines

\* what ends the loop: a quit command, KeyboardInterrupt at the prompt, or
\* KeyboardInterrupt while a query is handled
EndsLoop(arrival) ==
    \/ arrival.kind = "interrupt"
    \/ arrival.kind = "line" /\ arrival.text \in QuitLines
    \/ IsQuery(arrival) /\ arrival.outcome = "interrupt"

\* an exception other than KeyboardInterrupt
Fails(arrival) ==
    \/ arrival.kind = "eof"
    \/ IsQuery(arrival) /\ arrival.outcome = "error"

\* what has been read and fully dealt with
Settled ==
    IF loop = "searching" THEN SubSeq(consumed, 1, Len(consumed) - 1) ELSE consumed

RECURSIVE QueriesOf(_)
QueriesOf(s) ==
    IF s = <<>> THEN <<>>
    ELSE IF IsQuery(Head(s)) THEN <<Trimmed(Head(s).text)>> \o QueriesOf(Tail(s))
    ELSE QueriesOf(Tail(s))

(* C27: in ProductSearchTool.run, for any sequence of user inputs,         *)
(* search_products is invoked exactly once, in order, for each input read  *)
(* that is non-empty after trimming and is not quit/exit/q in any case,    *)
(* never for an empty input, and never at or after the first quit command  *)
(* (nothing is read after it); the loop ends only on a quit command or     *)
(* KeyboardInterrupt; any other exception raised while one input is        *)
(* handled is reported and followed by a new prompt.                       *)
C27_RunLoop ==
    loop # "off" =>
        /\ searched = QueriesOf(Settled)
        /\ \A i \in 1..(Len(consumed) - 1) : ~EndsLoop(consumed[i])
        /\ loop = "ended" <=>
              ( /\ Settled # <<>>
                /\ EndsLoop(Settled[Len(Settled)]) )
        /\ loop = "searching" => IsQuery(consumed[Len(consumed)])
        /\ reported = Cardinality({i \in 1..Len(Settled) : Fails(Settled[i])})

\* a query whose handling raised was searched and reported, an empty line
\* was passed over, and " Q " ended the loop
C27_Witness ==
    /\ loop = "ended"
    /\ consumed = <<Line(TxtqaPadded, "error"), Line(TxtSpace, "ok"), Line(TxtQPadded, "ok")>>
    /\ searched = <<Txtqa>>
    /\ reported = 1

-----------------------------------------------------------------------------
(* The topics extract_analytics returns *)

ReturnedTopics == analytics[1]

NonIncreasing(t) == \A i \in 1..(Len(t) - 1) : t[i].mentions >= t[i + 1].mentions

\* the text of the counting response holds a count strictly between 0 and 1
FractionCounted ==
    /\ remote.count_response.kind = "content"
    /\ remote.count_response.content # None
    /\ \E i \in 1..Len(remote.count_response.content[1]) :
           remote.count_response.content[1][i] = "0.5"

\* C28: in every value extract_analytics returns, whatever the two responses
\* hold and also when a request fails, frequently_mentioned_topics is a
\* non-empty list of at most 5 entries, each with an integer mentions count
\* of at least 1, in non-increasing order of mentions.
C28_TopicsWellFormed ==
    analytics # None =>
        /\ Len(ReturnedTopics) >= 1
        /\ Len(ReturnedTopics) <= 5
        /\ \A i \in 1..Len(ReturnedTopics) :
               ReturnedTopics[i].mentions \in Int /\ ReturnedTopics[i].mentions >= 1
        /\ NonIncreasing(ReturnedTopics)

\* a count of 0.5 passes `mention_count > 0` and int() makes it 0
C28_ZeroMentionsReturned ==
    /\ remote.count_response =
           Content(Some(TopicsText(ArrayText(<<EntryText(<<"\"a\"">>, <<"0.5">>)>>))))
    /\ analytics = Some(<<[topic |-> "a", mentions |-> 0]>>)

\* the rest of the statement stands, and so does the count of at least 1
\* when no response counts a fraction below 1
TopicsWellFormedButForFractions ==
    analytics # None =>
        /\ Len(ReturnedTopics) >= 1
        /\ Len(ReturnedTopics) <= 5
        /\ \A i \in 1..Len(ReturnedTopics) :
               /\ ReturnedTopics[i].mentions \in Int
               /\ ReturnedTopics[i].mentions >= (IF FractionCounted THEN 0 ELSE 1)
        /\ NonIncreasing(ReturnedTopics)

\* more than five valid entries arrive unsorted and five come back sorted
LongListCutAndSorted ==
    /\ remote.count_response.kind = "content"
    /\ remote.count_response.content \in {Some(t) : t \in LongTexts}
    /\ analytics # None
    /\ Len(ReturnedTopics) = 5
    /\ ReturnedTopics[1].mentions = 2
    /\ ReturnedTopics[1].topic = "f"
    /\ ReturnedTopics[5].mentions = 1

\* a request fails and the fallback entry is returned
FallbackAfterFailure ==
    /\ remote.count_response = ApiError
    /\ analytics = Some(<<GeneralDiscussion>>)
    /\ Len(calls) = 2

-----------------------------------------------------------------------------
(* The order of the steps of process_audio_file *)

StepOrder == <<"validate", "duration", "transcribe", "summarize", "analyze", "save">>

IsPrefix(a, b) == Len(a) <= Len(b) /\ \A i \in 1..Len(a) : a[i] = b[i]

Entered(name) == \E i \in 1..Len(trace) : trace[i] = name

\* the place of a request among the requests of one processing
RequestRank(r) ==
    CASE r.prompt = "transcription" -> 1
      [] r.prompt = "language_detection" -> 2
      [] r.prompt = "summary" -> 3
      [] r.prompt = "topic_identification" -> 4
      [] r.prompt = "topic_counting" -> 5

Missing == ~file.exists

UnsupportedSuffix == \A x \in SUPPORTED_FORMATS : ~SameIgnoringCase(file.suffix, x)

TooLarge == file.size > 25 * 1024 * 1024

FailsValidation == Missing \/ UnsupportedSuffix \/ TooLarge

\* the first of the three checks, in the order stated, that the file fails
FirstFailedCheck ==
    IF Missing THEN "File not found"
    ELSE IF UnsupportedSuffix THEN "Unsupported format"
    ELSE "File too large"

TranscriptionSucceeded == remote.whisper.kind = "transcript"

SummarySucceeded == remote.summarizer.kind = "content"

\* one of the two requests of the analytics fails
AnalyticsRequestFails ==
    \/ remote.topic_response = ApiError
    \/ remote.topic_response.kind = "content" /\ remote.count_response = ApiError

StepsInOrder ==
    /\ IsPrefix(trace, StepOrder)
    /\ \A i, j \in 1..Len(calls) : i < j => RequestRank(calls[i]) < RequestRank(calls[j])
    /\ (calls # <<>> /\ RequestRank(calls[Len(calls)]) >= 1) => Entered("transcribe")
    /\ (calls # <<>> /\ RequestRank(calls[Len(calls)]) >= 3) => Entered("summarize")
    /\ (calls # <<>> /\ RequestRank(calls[Len(calls)]) >= 4) => Entered("analyze")

NoRequestForInvalidFile ==
    FailsValidation =>
        /\ calls = <<>>
        /\ Len(trace) <= 1
        /\ trace # <<>> =>
              /\ step = "raised"
              /\ failure = Some(Raised("ValueError", FirstFailedCheck))

SaveOnlyAfterBoth ==
    Entered("save") =>
        /\ TranscriptionSucceeded /\ transcribed # None
        /\ SummarySucceeded /\ summary # None
        /\ ~FailsValidation

AnalyticsNeverEndsProcessing ==
    Entered("analyze") =>
        /\ step \in {"save", "done"}
        /\ analytics # None
        /\ AnalyticsRequestFails => analytics = Some(<<GeneralDiscussion>>)

\* save_results ends the processing, whatever could not be written, and
\* what is saved after a failed request of the analytics is the fallback
SavedWithFallback ==
    Entered("save") =>
        /\ step = "done"
        /\ saved # None
        /\ failure = None
        /\ AnalyticsRequestFails => analytics = Some(<<GeneralDiscussion>>)

(* C29: in process_audio_file the steps run strictly in the order validate, *)
(* duration, transcribe, summarize, analyze, save; no remote request is     *)
(* made for a file that fails validation (missing, unsupported suffix, or   *)
(* larger than 25 MB, looked at in that order); save_results is reached     *)
(* only if transcription and summary generation both succeeded; and a       *)
(* failure of a request of the analytics still leads to saving, with the    *)
(* fallback analytics: once extract_analytics has run, the processing       *)
(* stands at save_results or has returned from it, never at an exception.   *)
C29_ProcessOrder ==
    /\ StepsInOrder
    /\ NoRequestForInvalidFile
    /\ SaveOnlyAfterBoth
    /\ AnalyticsNeverEndsProcessing
    /\ SavedWithFallback

\* a valid file was transcribed and summarized, the counting request
\* failed, and the results were saved with the fallback analytics after
\* four requests
C29_Witness ==
    /\ step = "done"
    /\ trace = StepOrder
    /\ file = AudioFile(TRUE, Txt_MP3, MAX_FILE_SIZE)
    /\ remote.count_response = ApiError
    /\ Len(calls) = 4
    /\ calls[4].prompt = "topic_counting"
    /\ analytics = Some(<<GeneralDiscussion>>)
    /\ saved = Some({"transcription"})

====
